---- MODULE Spec2Model ----
(***************************************************************************)
(* Pattern length / tuplet ratio entry of the Hydrogen pattern editor      *)
(* panel (src/gui/src/PatternEditor/PatternEditorPanel.cpp).               *)
(*                                                                         *)
(* Texts are sequences of one-character strings, so that splitting,        *)
(* parsing and formatting are computed the way the code computes them.     *)
(* A double is modelled bit for bit: a parsed numerator is the double      *)
(* nearest to the number written, and each operation of the code on        *)
(* doubles is rounded to the nearest double, ties to even; round() is C's  *)
(* round-half-away-from-zero.  The handlers of the length entry and of the *)
(* tuplet entry are split where they open a dialog, since a dialog runs an *)
(* event loop of its own.                                                  *)
(***************************************************************************)
EXTENDS Integers, Sequences, FiniteSets, TLC


\* ------------------------------------------------------------------------
\* Program constant
\* ------------------------------------------------------------------------

\* ticks per whole note ("valid if and only if MAX_NOTES = 192")
MAX_NOTES == 192

\* ------------------------------------------------------------------------
\* QString helpers
\* ------------------------------------------------------------------------

Digits == <<"0", "1", "2", "3", "4", "5", "6", "7", "8", "9">>

IsDigit(c) == \E i \in 1..10 : Digits[i] = c

DigitVal(c) == (CHOOSE i \in 1..10 : Digits[i] = c) - 1

AllDigits(s) == \A i \in 1..Len(s) : IsDigit(s[i])

\* value of a run of decimal digits (0 for the empty run)
RECURSIVE DigitsVal(_)
DigitsVal(s) ==
    IF s = << >> THEN 0
    ELSE 10 * DigitsVal(SubSeq(s, 1, Len(s) - 1)) + DigitVal(s[Len(s)])

\* positions of the separator in s
SepPositions(s, sep) == {i \in 1..Len(s) : s[i] = sep}

\* QString::split( sep ): empty parts are kept, "" gives one empty part
RECURSIVE split(_, _)
split(s, sep) ==
    IF SepPositions(s, sep) = {} THEN <<s>>
    ELSE LET i == CHOOSE j \in SepPositions(s, sep) :
                      \A k \in SepPositions(s, sep) : j <= k
         IN  <<SubSeq(s, 1, i - 1)>> \o split(SubSeq(s, i + 1, Len(s)), sep)

\* QString::replace( before, after ) for single characters
replace(s, before, after) ==
    [i \in 1..Len(s) |-> IF s[i] = before THEN after ELSE s[i]]

\* QString::number / "%1".arg( int ) for n >= 0
RECURSIVE IntText(_)
IntText(n) ==
    IF n < 10 THEN <<Digits[n + 1]>>
    ELSE IntText(n \div 10) \o <<Digits[(n % 10) + 1]>>

\* the largest value of an int
INT_MAX == 2147483647

\* s without its leading zeros, one digit at least
RECURSIVE StripZeros(_)
StripZeros(s) ==
    IF Len(s) > 1 /\ s[1] = "0" THEN StripZeros(SubSeq(s, 2, Len(s))) ELSE s

\* a <= b for two runs of digits of the same length
DigitsLeq(a, b) ==
    \/ a = b
    \/ \E i \in 1..Len(a) : /\ \A j \in 1..(i - 1) : a[j] = b[j]
                            /\ DigitVal(a[i]) < DigitVal(b[i])

\* the digits of INT_MAX, and of the magnitude of the least int
IntMaxDigits == IntText(INT_MAX)
IntMinDigits == IntText(INT_MAX \div 10) \o <<"8">>

\* A character outside ASCII, or the control character U+000B, is written
\* as the one-element string naming its code point.
\* Unicode separators: the space separators (Zs), the line separator and
\* the paragraph separator
UnicodeSeparators ==
    { "U+1680", "U+2000", "U+2001", "U+2002", "U+2003", "U+2004", "U+2005", "U+2006",
      "U+2007", "U+2008", "U+2009", "U+200A", "U+2028", "U+2029", "U+202F", "U+205F",
      "U+3000" }

\* QChar::isSpace: U+0020, U+0009 to U+000D, U+0085, U+00A0 and the
\* Unicode separators
Spaces ==
    {" ", "\t", "\n", "U+000B", "\f", "\r", "U+0085", "U+00A0"} \cup UnicodeSeparators

UpperCase == << "A", "B", "C", "D", "E", "F", "G", "H", "I", "J", "K", "L", "M",
                "N", "O", "P", "Q", "R", "S", "T", "U", "V", "W", "X", "Y", "Z" >>

LowerCase == << "a", "b", "c", "d", "e", "f", "g", "h", "i", "j", "k", "l", "m",
                "n", "o", "p", "q", "r", "s", "t", "u", "v", "w", "x", "y", "z" >>

\* the lower case letter of each upper case letter
LowerOf == [c \in {UpperCase[i] : i \in 1..Len(UpperCase)} |->
               LowerCase[CHOOSE i \in 1..Len(UpperCase) : UpperCase[i] = c]]

\* QChar::toLower on the letters A to Z
toLower(c) == IF c \in DOMAIN LowerOf THEN LowerOf[c] ELSE c

RECURSIVE TrimLeft(_)
TrimLeft(s) == IF Len(s) > 0 /\ s[1] \in Spaces THEN TrimLeft(Tail(s)) ELSE s

RECURSIVE TrimRight(_)
TrimRight(s) ==
    IF Len(s) > 0 /\ s[Len(s)] \in Spaces THEN TrimRight(SubSeq(s, 1, Len(s) - 1)) ELSE s

\* the minus signs: '-' and U+2212 MINUS SIGN
MinusSigns == {"-", "U+2212"}

\* QLocaleData::numberToCLocale, which toInt and toDouble apply first: the
\* white space before and after the number is dropped, U+2212 MINUS SIGN is
\* read as '-' and letters are put in lower case.  A character that is no
\* part of a number stays in place and makes the conversion fail.
numberToCLocale(s) ==
    LET t == TrimRight(TrimLeft(s))
    IN  [i \in 1..Len(t) |-> IF t[i] \in MinusSigns THEN "-" ELSE toLower(t[i])]

\* QString::toInt( &ok ): white space, an optional sign '+' or '-', digits,
\* white space; 0 when the conversion fails, also when the value is outside
\* [-INT_MAX - 1, INT_MAX].
toInt(s) ==
    LET t    == numberToCLocale(s)
        sgn  == Len(t) > 0 /\ t[1] \in {"-", "+"}
        neg  == Len(t) > 0 /\ t[1] = "-"
        body == IF sgn THEN SubSeq(t, 2, Len(t)) ELSE t
        good == Len(body) > 0 /\ AllDigits(body)
        sig  == StripZeros(body)
        least == neg /\ sig = IntMinDigits
        fits == \/ Len(sig) < Len(IntMaxDigits)
                \/ Len(sig) = Len(IntMaxDigits) /\ DigitsLeq(sig, IntMaxDigits)
    IN  IF good /\ least THEN [ok |-> TRUE, val |-> (0 - INT_MAX) - 1]
        ELSE IF good /\ fits
             THEN [ok |-> TRUE, val |-> IF neg THEN 0 - DigitsVal(sig) ELSE DigitsVal(sig)]
        ELSE [ok |-> FALSE, val |-> 0]

\* round() of the non-negative quotient a / b: half away from zero
RoundDiv(a, b) == (2 * a + b) \div (2 * b)

\* ------------------------------------------------------------------------
\* float: IEEE single precision, on the values the grid arithmetic of an
\* editor meets (positive, below 2^24, above 2^-7). A float is the pair
\* <<m, s>> of its exact value m / s in lowest terms, s a power of two.
\* ------------------------------------------------------------------------

\* m / s in lowest terms, s a power of two
RECURSIVE Reduce(_, _)
Reduce(m, s) ==
    IF s > 1 /\ m % 2 = 0 THEN Reduce(m \div 2, s \div 2) ELSE <<m, s>>

\* The float nearest to (m + r / d) / s, ties to even: binary long
\* division until the significand m has 24 bits or the remainder is 0.
RECURSIVE NearestFloat(_, _, _, _)
NearestFloat(m, r, d, s) ==
    IF r = 0 THEN Reduce(m, s)
    ELSE IF m >= 2 ^ 23
    THEN Reduce(IF 2 * r > d \/ (2 * r = d /\ m % 2 = 1) THEN m + 1 ELSE m, s)
    ELSE NearestFloat(2 * m + (2 * r) \div d, (2 * r) % d, d, 2 * s)

\* the float quotient p / d of two integers that are floats themselves
FloatDiv(p, d) == NearestFloat(p \div d, p % d, d, 1)

\* ------------------------------------------------------------------------
\* Natural numbers of any size: the digits to the base 2^15, lowest first,
\* without a leading zero digit;  << >> is 0
\* ------------------------------------------------------------------------

LimbBase == 2 ^ 15

LimbBits == 15

\* a without its leading zero digits
RECURSIVE BigTrim(_)
BigTrim(a) ==
    IF Len(a) > 0 /\ a[Len(a)] = 0 THEN BigTrim(SubSeq(a, 1, Len(a) - 1)) ELSE a

\* the int n >= 0
RECURSIVE BigOfInt(_)
BigOfInt(n) == IF n = 0 THEN << >> ELSE <<n % LimbBase>> \o BigOfInt(n \div LimbBase)

\* the value of a, which is below 2^31
RECURSIVE BigToInt(_)
BigToInt(a) == IF Len(a) = 0 THEN 0 ELSE a[1] + LimbBase * BigToInt(Tail(a))

\* a * k + c for 0 < k <= 2^15 and 0 <= c < 2^15
RECURSIVE BigMulAdd(_, _, _)
BigMulAdd(a, k, c) ==
    IF Len(a) = 0 THEN BigOfInt(c)
    ELSE LET t == a[1] * k + c
         IN  <<t % LimbBase>> \o BigMulAdd(Tail(a), k, t \div LimbBase)

\* a + b + c for a carry c of 0 or 1
RECURSIVE BigAddCarry(_, _, _)
BigAddCarry(a, b, c) ==
    IF Len(a) = 0 /\ Len(b) = 0 THEN BigOfInt(c)
    ELSE LET x == IF Len(a) = 0 THEN 0 ELSE a[1]
             y == IF Len(b) = 0 THEN 0 ELSE b[1]
             t == x + y + c
         IN  <<t % LimbBase>>
             \o BigAddCarry(IF Len(a) = 0 THEN a ELSE Tail(a),
                            IF Len(b) = 0 THEN b ELSE Tail(b), t \div LimbBase)

BigAdd(a, b) == BigAddCarry(a, b, 0)

\* a * b
RECURSIVE BigMul(_, _)
BigMul(a, b) ==
    IF Len(a) = 0 \/ Len(b) = 0 THEN << >>
    ELSE BigAdd(IF b[1] = 0 THEN << >> ELSE BigMulAdd(a, b[1], 0),
                IF Len(b) = 1 THEN << >> ELSE <<0>> \o BigMul(a, Tail(b)))

\* quotient (digit for digit, not trimmed) and remainder of a by d, 0 < d <= 2^15
RECURSIVE BigDivRem(_, _)
BigDivRem(a, d) ==
    IF Len(a) = 0 THEN [q |-> << >>, r |-> 0]
    ELSE LET hi == BigDivRem(Tail(a), d)
             t  == hi.r * LimbBase + a[1]
         IN  [q |-> <<t \div d>> \o hi.q, r |-> t % d]

\* the number of binary digits of n >= 0
RECURSIVE Bits(_)
Bits(n) == IF n = 0 THEN 0 ELSE 1 + Bits(n \div 2)

BigBits(a) == IF Len(a) = 0 THEN 0 ELSE LimbBits * (Len(a) - 1) + Bits(a[Len(a)])

\* a * 2^k
BigShiftLeft(a, k) ==
    IF Len(a) = 0 THEN a
    ELSE [i \in 1..(k \div LimbBits) |-> 0] \o BigMulAdd(a, 2 ^ (k % LimbBits), 0)

\* a \div 2^k
BigShiftRight(a, k) ==
    IF k \div LimbBits >= Len(a) THEN << >>
    ELSE BigTrim(BigDivRem(SubSeq(a, (k \div LimbBits) + 1, Len(a)), 2 ^ (k % LimbBits)).q)

\* a % 2^k # 0
BigLowBits(a, k) ==
    \/ \E i \in 1..(k \div LimbBits) : i <= Len(a) /\ a[i] # 0
    \/ k \div LimbBits < Len(a) /\ a[(k \div LimbBits) + 1] % (2 ^ (k % LimbBits)) # 0

BigOdd(a) == Len(a) > 0 /\ a[1] % 2 = 1

\* a < b
RECURSIVE BigLess(_, _)
BigLess(a, b) ==
    IF Len(a) # Len(b) THEN Len(a) < Len(b)
    ELSE IF Len(a) = 0 THEN FALSE
    ELSE IF a[Len(a)] # b[Len(b)] THEN a[Len(a)] < b[Len(b)]
    ELSE BigLess(SubSeq(a, 1, Len(a) - 1), SubSeq(b, 1, Len(b) - 1))

\* the number written with the decimal digits s
RECURSIVE BigOfDigits(_)
BigOfDigits(s) ==
    IF Len(s) = 0 THEN << >>
    ELSE BigTrim(BigMulAdd(BigOfDigits(SubSeq(s, 1, Len(s) - 1)), 10, DigitVal(s[Len(s)])))

\* a * 10^k
RECURSIVE BigTimesPow10(_, _)
BigTimesPow10(a, k) ==
    IF k = 0 \/ Len(a) = 0 THEN a
    ELSE IF k >= 4 THEN BigTimesPow10(BigMulAdd(a, 10000, 0), k - 4)
    ELSE BigTimesPow10(BigMulAdd(a, 10, 0), k - 1)

\* a \div 10^k, and whether the division left a remainder
RECURSIVE BigOverPow10(_, _, _)
BigOverPow10(a, k, sticky) ==
    IF k = 0 THEN [q |-> a, sticky |-> sticky]
    ELSE LET n == IF k >= 4 THEN 4 ELSE 1
             d == BigDivRem(a, 10 ^ n)
         IN  IF d.r = 0 THEN BigOverPow10(BigTrim(d.q), k - n, sticky)
             ELSE BigOverPow10(BigTrim(d.q), k - n, TRUE)

\* ------------------------------------------------------------------------
\* double: IEEE double precision.  A finite double is sign, m and e of its
\* value m * 2^e: m has DoubleDigits binary digits, or fewer with e the least
\* exponent (m = 0 and e the least exponent for zero)
\* ------------------------------------------------------------------------

\* binary digits of the significand, least exponent of 2 of its last digit,
\* and the exponent of 2 no finite value reaches
DoubleDigits == 53
DoubleMinExp == 0 - 1074
DoubleMaxExp == 1024

DoubleZero == [cls |-> "finite", neg |-> FALSE, m |-> << >>, e |-> DoubleMinExp]
DoubleInf == [cls |-> "inf", neg |-> FALSE, m |-> << >>, e |-> 0]
DoubleNaN == [cls |-> "nan", neg |-> FALSE, m |-> << >>, e |-> 0]

DoubleNegated(x) == [x EXCEPT !.neg = ~x.neg]

\* The double nearest to (n + f) * 2^e, ties to the even significand, where
\* 0 <= f < 1 and sticky says f > 0; n has two digits more than the
\* significand, or reaches below the least exponent, whenever sticky holds
DoubleNearest(n, e, sticky) ==
    LET bits == BigBits(n)
        drop == IF bits - DoubleDigits > DoubleMinExp - e
                THEN bits - DoubleDigits ELSE DoubleMinExp - e
        q2   == BigShiftRight(n, drop - 1)
        st   == sticky \/ BigLowBits(n, drop - 1)
        q    == BigShiftRight(q2, 1)
        up   == BigOdd(q2) /\ (st \/ BigOdd(q))
        r    == IF up THEN BigAdd(q, <<1>>) ELSE q
    IN  IF Len(n) = 0 THEN DoubleZero
        ELSE IF drop <= 0
        THEN IF bits + e > DoubleMaxExp THEN DoubleInf
             ELSE [cls |-> "finite", neg |-> FALSE, m |-> BigShiftLeft(n, 0 - drop), e |-> e + drop]
        ELSE IF BigBits(r) > DoubleDigits
        THEN IF e + drop + 1 + DoubleDigits > DoubleMaxExp THEN DoubleInf
             ELSE [cls |-> "finite", neg |-> FALSE, m |-> BigShiftRight(r, 1), e |-> e + drop + 1]
        ELSE IF BigBits(r) + e + drop > DoubleMaxExp THEN DoubleInf
        ELSE [cls |-> "finite", neg |-> FALSE, m |-> r, e |-> e + drop]

\* (double) n for an int n >= 0
DoubleOfInt(n) == DoubleNearest(BigOfInt(n), 0, FALSE)

\* The double nearest to d * 10^k, d a natural number of nDigits decimal
\* digits (strtod).  Beyond 10^310 the result is infinite, below 10^-324 zero.
DoubleOfDecimal(d, nDigits, k) ==
    IF Len(d) = 0 THEN DoubleZero
    ELSE IF nDigits + k > 310 THEN DoubleInf
    ELSE IF nDigits + k < 0 - 324 THEN DoubleZero
    ELSE IF k >= 0 THEN DoubleNearest(BigTimesPow10(d, k), 0, FALSE)
    ELSE LET j == 56 + 4 * (0 - k)
             t == BigOverPow10(BigShiftLeft(d, j), 0 - k, FALSE)
         IN  DoubleNearest(t.q, 0 - j, t.sticky)

\* x * y for finite x, y >= 0
DoubleTimes(x, y) == DoubleNearest(BigMul(x.m, y.m), x.e + y.e, FALSE)

\* x / n for x >= 0, not a NaN, and an int n, 0 < n < 2^15
DoubleOverInt(x, n) ==
    LET d == BigDivRem(BigShiftLeft(x.m, 18), n)
    IN  IF x.cls = "inf" THEN x
        ELSE DoubleNearest(BigTrim(d.q), x.e - 18, d.r # 0)

\* x > 0
DoublePositive(x) == x.cls # "nan" /\ ~x.neg /\ (x.cls = "inf" \/ Len(x.m) > 0)

\* x > y for x, y >= 0, neither a NaN
DoubleGreater(x, y) ==
    IF x.cls = "inf" THEN y.cls # "inf"
    ELSE IF y.cls = "inf" THEN FALSE
    ELSE IF x.e # y.e THEN x.e > y.e /\ Len(x.m) > 0
    ELSE BigLess(y.m, x.m)

\* round( x ) converted to int, for a finite x >= 0 below 2^30: half away
\* from zero
DoubleRound(x) ==
    IF x.e >= 0 THEN BigToInt(BigShiftLeft(x.m, x.e))
    ELSE (BigToInt(BigShiftRight(x.m, (0 - x.e) - 1)) + 1) \div 2

\* ------------------------------------------------------------------------
\* QString::toDouble
\* ------------------------------------------------------------------------

\* an exponent of ten beyond which every number with fewer digits than this
\* overflows or underflows
ExponentCap == 10000

\* value of the digits of an exponent
ExponentVal(s) ==
    IF Len(StripZeros(s)) > Len(IntText(ExponentCap)) - 1 THEN ExponentCap
    ELSE DigitsVal(StripZeros(s))

\* The number written by t, a text with no white space around it and no
\* upper-case letter: "nan", or an optional sign and "inf", or an optional
\* sign, digits with at most one '.' (one digit at least) and an optional
\* exponent 'e' with its own optional sign and digits.  The value is the
\* double nearest to the number written.  The conversion fails, with the
\* value 0, on any other text and on a number other than 0 that is nearer
\* to 0 than to the least double; it fails with an infinite value on a
\* number beyond the greatest double.
asciiToDouble(t) ==
    LET sgn   == Len(t) > 0 /\ t[1] \in {"-", "+"}
        neg   == Len(t) > 0 /\ t[1] = "-"
        body  == IF sgn THEN SubSeq(t, 2, Len(t)) ELSE t
        es    == SepPositions(body, "e")
        ePos  == IF es = {} THEN Len(body) + 1
                 ELSE CHOOSE i \in es : \A j \in es : i <= j
        mant  == SubSeq(body, 1, ePos - 1)
        ex    == SubSeq(body, ePos + 1, Len(body))
        exSgn == Len(ex) > 0 /\ ex[1] \in {"-", "+"}
        exNeg == Len(ex) > 0 /\ ex[1] = "-"
        exDig == IF exSgn THEN SubSeq(ex, 2, Len(ex)) ELSE ex
        dots  == SepPositions(mant, ".")
        dot   == IF dots = {} THEN Len(mant) + 1 ELSE CHOOSE i \in dots : TRUE
        ip    == SubSeq(mant, 1, dot - 1)
        fp    == SubSeq(mant, dot + 1, Len(mant))
        good  == /\ Cardinality(dots) <= 1
                 /\ AllDigits(ip) /\ AllDigits(fp)
                 /\ Len(ip) + Len(fp) > 0
                 /\ es # {} => (Len(exDig) > 0 /\ AllDigits(exDig))
        sig   == StripZeros(ip \o fp)
        expo  == IF es = {} THEN 0
                 ELSE IF exNeg THEN 0 - ExponentVal(exDig) ELSE ExponentVal(exDig)
        mag   == DoubleOfDecimal(BigOfDigits(sig), Len(sig), expo - Len(fp))
        signed(x) == IF neg THEN DoubleNegated(x) ELSE x
    IN  IF t = <<"n", "a", "n">> THEN [ok |-> TRUE, val |-> DoubleNaN]
        ELSE IF body = <<"i", "n", "f">> THEN [ok |-> TRUE, val |-> signed(DoubleInf)]
        ELSE IF ~good THEN [ok |-> FALSE, val |-> DoubleZero]
        ELSE IF mag.cls = "inf" THEN [ok |-> FALSE, val |-> signed(DoubleInf)]
        ELSE IF Len(mag.m) = 0 /\ sig # <<"0">> THEN [ok |-> FALSE, val |-> DoubleZero]
        ELSE [ok |-> TRUE, val |-> signed(mag)]

\* QString::toDouble( &ok ): white space around the number is ignored and
\* letters are read without regard to case
toDouble(s) == asciiToDouble(numberToCLocale(s))


\* ------------------------------------------------------------------------
\* Texts the user can type into the two input dialogs
\* ------------------------------------------------------------------------

\* numerators of a length expression
LengthNumeratorTexts ==
    { <<"3">>, <<"1", "6">>, <<"1", "7">>, <<"1">>, <<"0">>,
      <<"-", "1">>, <<"0", ".", "0", "0", "1">>, <<"2", ",", "5">>,
      <<"0", ".", "7", "9">>, <<"x">>, << >>,
      <<"+", "3">>, <<" ", "3">>, <<"1", "e", "1">>, <<"i", "n", "f">>,
      <<"n", "a", "n">>, <<"0", ".", "5", "0", "0", "5">>,
      <<"U+00A0", "3">>, <<"3", "U+000B">>, <<"U+0085", "2", ".", "5">>,
      <<"3", "U+00A0", "4">>,
      <<"U+2212", "1">>, <<"1", "e", "U+2212", "1">>, <<"3", "U+2212">>,
      <<"3", ".", "0">>, <<"0", ".", "2", "e", "1">> }

\* numerators entered together with a denominator
LengthRatioNumeratorTexts ==
    { <<"3">>, <<"1", "6">>, <<"1", "7">>, <<"0", ".", "0", "0", "1">>,
      <<"2", ",", "5">>, <<"x">> }

\* denominators of a length expression
LengthDenominatorTexts ==
    { <<"8">>, <<"4">>, <<"5">>, <<"1", "9", "2">>, <<"1", "9", "3">>, <<"0">>,
      <<"x">>, << >> }

\* expressions at the limit of four whole notes and around it, a numerator
\* that rounds to no tick at all, a denominator with a sign or with white
\* space
LengthLimitTexts ==
    { <<"1", "6", "/", "4">>, <<"1", "7", "/", "4">>, <<"1", "6", "/", "1", "9", "2">>,
      <<"0", ".", "0", "0", "1", "/", "4">>,
      <<"3", "/", "+", "4">>, <<"3", "/", " ", "4">>, <<"3", "/", "4", " ">>,
      <<"3", "/", "U+00A0", "4">>, <<"U+2003", "3", "/", "4", "U+3000">>,
      <<"3", "/", "-", "4">>, <<"3", "/", "U+2212", "4">>,
      <<"U+2212", "3", "/", "4">>,
      <<"3", ".", "0", "/", "8">>, <<"1", "e", "1", "/", "8">>,
      <<"3", "0", "0", "E", "-", "2", "/", "1", "6">> }

\* expressions in exponent notation, and expressions whose length in ticks
\* or whose numerator in thousandths lies next to a half
LengthHalfwayTexts ==
    { <<"1", "E", "-", "1", "/", "4">>, <<"1", "e", "U+2212", "1", "/", "4">>,
      <<"3", ".", "4", "3", "7", "5", "/", "8", "8">>,
      <<"6", ".", "1", "8", "7", "5", "/", "8", "8">>,
      <<"6", ".", "8", "7", "5", "/", "1", "7", "6">>,
      <<"7", ".", "3", "1", "3", "/", "1", "0", "8">>,
      <<"0", ".", "5", "0", "0", "5", "/", "8">> }

\* "n", "n/d" and a text with two separators
LengthTexts ==
    LengthNumeratorTexts
    \cup { n \o <<"/">> \o d : n \in LengthRatioNumeratorTexts, d \in LengthDenominatorTexts }
    \cup LengthLimitTexts
    \cup LengthHalfwayTexts
    \cup { <<"1", "/", "2", "/", "3">> }

\* the length expressions entered while the audio thread is watched
AudioLengthTexts ==
    { <<"3", "/", "8">>, <<"1", "/", "5">>, <<"1", "6", "/", "4">>, <<"5">>,
      <<"2", ",", "5">>, <<"1", "7", "/", "4">>, <<"x">> }

\* largest numerator of the tuplet expressions entered
MaxTupletText == 21

\* numerators of a tuplet expression
TupletNumeratorTexts ==
    { IntText(n) : n \in 0..MaxTupletText } \cup { <<"-", "3">>, <<"x">>, << >> }
    \cup { IntText(INT_MAX \div 2), IntText((INT_MAX \div 2) + 1), IntMaxDigits, IntMinDigits }
    \cup { <<"+", "5">>, <<" ", "5">>, <<"5", " ">> }
    \cup { <<"U+00A0", "5">>, <<"5", "U+00A0">>, <<"U+000B", "7">>, <<"1", "U+2009", "0">> }
    \cup { <<"U+2212", "3">>, <<"U+2212", "0">>, <<"5", "U+2212">> }

\* numerators entered together with a denominator
TupletRatioNumeratorTexts == { <<"3">>, <<"2", "1">>, <<"x">>, IntMaxDigits }

\* denominators of a tuplet expression
TupletDenominatorTexts ==
    { <<"7">>, <<"2", "4">>, <<"1", "9", "2">>, <<"1", "9", "3">>, <<"0">>, <<"x">> }

\* "n", "n:d" and a text with two separators
TupletTexts ==
    TupletNumeratorTexts
    \cup { n \o <<":">> \o d : n \in TupletRatioNumeratorTexts, d \in TupletDenominatorTexts }
    \cup { <<"5", ":", "+", "4">>, <<"5", ":", " ", "4">>, <<"5", ":", "U+00A0", "4">>,
           <<"U+2028", "6", ":", "4", "U+0085">>,
           <<"5", ":", "-", "4">>, <<"5", ":", "U+2212", "4">>,
           <<"U+2212", "5", ":", "4">> }
    \cup { <<"5", ":", "4", ":", "2">>, <<"o", "f", "f">> }

\* ------------------------------------------------------------------------
\* State
\* ------------------------------------------------------------------------

VARIABLES
    engineState,        \* Hydrogen::getState(): "READY" or "PLAYING"
    decimalPoint,       \* decimal separator of QLocale::system()
    m_pPattern,         \* "null" or "pattern": the selected pattern, if any
    patLength,          \* Pattern::get_length() of the pattern entity, in ticks
    patDenominator,     \* Pattern::get_denominator() of the pattern entity
    sizeLCD,            \* text of __pattern_size_LCD
    denominatorWarning, \* m_pDenominatorWarning is shown
    guiPc,              \* where the GUI thread is: idle, or inside a handler at a dialog
    locals,             \* the frame of patternSizeLCDClicked while the handler runs
    audioSeen,          \* what the audio thread read last, and the pairs complete at that time
    published,          \* the last (length, denominator) the pattern was given as a pair
    crashed,            \* the process dereferenced a null pattern
    pref,               \* Preferences: pattern editor grid resolution and tuplet ratio
    m_nResolution,      \* the panel's copy of the grid resolution
    m_nTupletNumerator, \* the panel's copy of the tuplet numerator
    m_nTupletDenominator, \* the panel's copy of the tuplet denominator
    editors,            \* the grid members of each of the seven editors
    tupletLCD,          \* text of m_pTupletLCD
    m_nCursorIncrement, \* set by gridResolutionChanged
    m_nCursorIndexPosition, \* the cursor, a grid index
    call                \* the last handler call: its input and its outcome

patternVars == << m_pPattern, patLength, patDenominator, sizeLCD, denominatorWarning >>

gridVars == << pref, m_nResolution, m_nTupletNumerator, m_nTupletDenominator,
               editors, tupletLCD, m_nCursorIncrement >>

vars == << engineState, decimalPoint, patternVars, guiPc, locals, audioSeen, published,
           crashed, gridVars, m_nCursorIndexPosition, call >>

\* ------------------------------------------------------------------------
\* PatternEditorPanel::updatePatternSizeLCD
\* ------------------------------------------------------------------------

\* three digits, zero padded
Pad3(n) == << Digits[(n \div 100) + 1], Digits[((n \div 10) % 10) + 1], Digits[(n % 10) + 1] >>

\* variant: two decimal digits
FixedTextTwoDigits(k, dp) ==
    LET m == RoundDiv(k * 100, MAX_NOTES)
    IN  IntText(m \div 100) \o <<dp>> \o << Digits[((m \div 10) % 10) + 1], Digits[(m % 10) + 1] >>

\* QLocale::toString( k / (float) MAX_NOTES, 'f', 3 ) for k >= 0
FixedText(k, dp) ==
    LET m == RoundDiv(k * 1000, MAX_NOTES)
    IN  IntText(m \div 1000) \o <<dp>> \o Pad3(m % 1000)

\* variant: the denominator is left out of the test
NumeratorIsIntegerLengthOnly(nPatternSize, nDen) == nPatternSize % MAX_NOTES = 0

\* the numerator is printed without decimal digits
NumeratorIsInteger(nPatternSize, nDen) == (nPatternSize * nDen) % MAX_NOTES = 0

\* the text put on __pattern_size_LCD
patternSizeText(nPatternSize, nDen, dp) ==
    IF NumeratorIsInteger(nPatternSize, nDen)
    THEN IntText((nPatternSize * nDen) \div MAX_NOTES) \o <<"/">> \o IntText(nDen)
    ELSE FixedText(nPatternSize * nDen, dp) \o <<"/">> \o IntText(nDen)

\* variant: the operands of % are swapped
ShowDenominatorWarningSwapped(nDen) == nDen % MAX_NOTES # 0

\* the warning icon is shown
ShowDenominatorWarning(nDen) == MAX_NOTES % nDen # 0

\* denominatorWarningClicked: "Supported values are: 1/1, 1/2, 1/3, ..."
SupportedDenominators == { 1, 2, 3, 4, 6, 8, 12, 16, 24, 32, 48, 64, 96, 192 }

\* ------------------------------------------------------------------------
\* PatternEditorPanel::patternSizeLCDClicked
\* ------------------------------------------------------------------------

\* MAX_NOTES, 4. and 1000 as operands of the arithmetic on doubles
DoubleMaxNotes == DoubleOfInt(MAX_NOTES)
DoubleFour == DoubleOfInt(4)
DoubleThousand == DoubleOfInt(1000)

\* "Denominator value rejected. Limits: (0, MAX_NOTES]"
DenominatorRejected(nDenominator) == nDenominator <= 0 \/ nDenominator > MAX_NOTES

\* variant: a ratio of exactly 4 is refused as well
PatternSizeTooBigInclusive(fNumerator, nDenominator) ==
    ~DoubleGreater(DoubleFour, DoubleOverInt(fNumerator, nDenominator))

\* fNumerator / nDenominator > 4.
PatternSizeTooBig(fNumerator, nDenominator) ==
    DoubleGreater(DoubleOverInt(fNumerator, nDenominator), DoubleFour)

\* variant: the operands of % are swapped
DenominatorUnsupportedSwapped(nDenominator) == nDenominator % MAX_NOTES # 0

\* MAX_NOTES % nDenominator != 0: "Length may be approximated"
DenominatorUnsupported(nDenominator) == MAX_NOTES % nDenominator # 0

\* variant: the product is truncated, not rounded
LengthInTicksTruncated(fNumerator, nDenominator) ==
    LET x == DoubleTimes(DoubleOverInt(DoubleMaxNotes, nDenominator), fNumerator)
    IN  IF x.e >= 0 THEN BigToInt(BigShiftLeft(x.m, x.e))
        ELSE BigToInt(BigShiftRight(x.m, 0 - x.e))

\* round( MAX_NOTES / (double) nDenominator * fNumerator ): the quotient is
\* rounded to a double, then the product, then round() is applied
LengthInTicks(fNumerator, nDenominator) ==
    DoubleRound(DoubleTimes(DoubleOverInt(DoubleMaxNotes, nDenominator),
                            fNumerator))

\* round( (double) nLength / MAX_NOTES * nDenominator * 1000 )
DisplayedNum_x1000(nLength, nDenominator) ==
    DoubleRound(DoubleTimes(DoubleTimes(DoubleOverInt(DoubleOfInt(nLength), MAX_NOTES),
                                        DoubleOfInt(nDenominator)),
                            DoubleThousand))

\* round( fNumerator * 1000 )
RoundInputNum_x1000(fNumerator) == DoubleRound(DoubleTimes(fNumerator, DoubleThousand))

\* variant: the displayed numerator is computed without the denominator
SizeWasApproximatedNoDenominator(nLength, nDenominator, fNumerator) ==
    DisplayedNum_x1000(nLength, 1) # RoundInputNum_x1000(fNumerator)

\* displayedNum_x1000 != roundInputNum_x1000
SizeWasApproximated(nLength, nDenominator, fNumerator) ==
    DisplayedNum_x1000(nLength, nDenominator) # RoundInputNum_x1000(fNumerator)

\* pEngine->getState() != STATE_READY
EngineNotReady(nState) == nState # "READY"

Outcome(result, msgs, nLength, nDenominator) ==
    [result |-> result, msgs |-> msgs, nLength |-> nLength, nDenominator |-> nDenominator]

\* an outcome of the length entry, with the numerator parsed
SizePath(result, msgs, nLength, nDenominator, fNumerator) ==
    [ result |-> result, msgs |-> msgs, nLength |-> nLength, nDenominator |-> nDenominator,
      fNumerator |-> fNumerator ]

\* The checks made once the numerator and the denominator are read (lines
\* 1053-1104): both says that a denominator was read from the text, den is
\* the result of reading it, or else the denominator of the pattern with
\* the flag left by the numerator.  "accepted" is the path that reaches the
\* block writing the pattern.  With no pattern selected,
\* m_pPattern->get_denominator() dereferences a null pointer, which the
\* language leaves undefined: nNullRead is what the build makes of it.  The
\* read faults (the path "crash"); a build may drop the read where the
\* value is not used afterwards, that is when the test bOk && fNumerator > 0
\* fails, and the handler then goes on to "Text rejected".
SizeOfFraction(both, fNumerator, den, nNullRead) ==
    IF both /\ den.ok /\ DenominatorRejected(den.val)
    THEN SizePath("rejected", {"DenominatorRejected"}, 0, den.val, fNumerator)
    ELSE IF /\ ~both /\ m_pPattern = "null"
            /\ (nNullRead = "faults" \/ (den.ok /\ DoublePositive(fNumerator)))
         THEN SizePath("crash", {}, 0, 0, fNumerator)
    ELSE IF ~(den.ok /\ DoublePositive(fNumerator))
         THEN SizePath("rejected", {"TextRejected"}, 0, den.val, fNumerator)
    ELSE IF PatternSizeTooBig(fNumerator, den.val)
         THEN SizePath("rejected", {"PatternSizeTooBig"}, 0, den.val, fNumerator)
    ELSE SizePath("accepted",
                  IF DenominatorUnsupported(den.val) THEN {"LengthNotSupported"} ELSE {},
                  LengthInTicks(fNumerator, den.val), den.val, fNumerator)

\* The denominator read after the numerator num (lines 1050-1060): the text
\* after the '/' when the numerator was read and there is such a text, else
\* the denominator of the pattern.
SizeOfNumerator(parts, num, nNullRead) ==
    SizeOfFraction(num.ok /\ Len(parts) = 2, num.val,
                   IF num.ok /\ Len(parts) = 2 THEN toInt(parts[2])
                   ELSE [ok |-> num.ok, val |-> patDenominator],
                   nNullRead)

\* The path the handler takes on the text qtmp once the input dialog is
\* closed, the dialogs it shows on the way and the locals fNumerator,
\* nDenominator and nLength (0 where never assigned a value that is used;
\* nLength is a function of the other two and is given with them).
SizeOutcome(bIsOkPressed, qtmp, nNullRead) ==
    IF ~bIsOkPressed THEN SizePath("cancelled", {}, 0, 0, DoubleZero)
    ELSE IF sizeLCD = qtmp THEN SizePath("unchanged", {}, 0, 0, DoubleZero)
    ELSE LET parts == split(qtmp, "/")
         IN  IF Len(parts) > 2
             THEN SizePath("rejected", {"TextRejected"}, 0, 0, DoubleZero)
             ELSE SizeOfNumerator(parts, toDouble(replace(parts[1], ",", ".")), nNullRead)

\* what a build makes of the read of the denominator through a null
\* m_pPattern: the read faults, or it is dropped where its value is unused
NullRead == {"faults", "elided"}

\* the handler's frame while it is not running
NoLocals ==
    [ ok |-> FALSE, text |-> << >>, msgs |-> {}, fNumerator |-> DoubleZero,
      nDenominator |-> 0, nLength |-> 0 ]

\* the handler's frame on the path to the block writing the pattern, and
\* the dialogs shown so far
Locals(bIsOkPressed, qtmp, o) ==
    [ ok |-> bIsOkPressed, text |-> qtmp, msgs |-> o.msgs, fNumerator |-> o.fNumerator,
      nDenominator |-> o.nDenominator, nLength |-> o.nLength ]

\* the handler shows the "length may be approximated" box, and so returns to
\* the event loop, before it writes the pattern
InformationShown(o) == o.result = "accepted" /\ "LengthNotSupported" \in o.msgs

\* the handler goes from the input dialog straight to set_length
WritesAtOnce(o) == o.result = "accepted" /\ ~InformationShown(o)

\* variant: the length is written before the expression is validated
LengthAfterUnchecked(o) ==
    IF o.result \in {"accepted", "rejected"} /\ ~InformationShown(o) /\ m_pPattern # "null"
    THEN o.nLength ELSE patLength

\* m_pPattern->set_length( nLength ) reached from the input dialog: the
\* length the pattern holds then
LengthAfter(o) ==
    IF WritesAtOnce(o) /\ m_pPattern # "null" THEN o.nLength ELSE patLength

CallRecord(op, bIsOkPressed, qtmp, o) ==
    [ op |-> op, ok |-> bIsOkPressed,
      text |-> IF o.result \in {"notReady", "cancelled"} THEN << >> ELSE qtmp,
      result |-> o.result, msgs |-> o.msgs,
      nLength |-> o.nLength, nDenominator |-> o.nDenominator ]

\* The handler from its entry to QInputDialog::getText: with the engine not
\* ready it shows a box and returns, else it opens the input dialog, whose
\* event loop lets other events of the application run.
patternSizeLCDClicked ==
    /\ ~crashed
    /\ guiPc = "idle"
    /\ IF EngineNotReady(engineState)
       THEN /\ call' = CallRecord("patternSizeLCDClicked", FALSE, << >>,
                                  Outcome("notReady", {"NotPossibleWhenPlaying"}, 0, 0))
            /\ guiPc' = guiPc
       ELSE /\ call' = CallRecord("patternSizeLCDClicked", FALSE, << >>,
                                  Outcome("getText", {}, 0, 0))
            /\ guiPc' = "getText"
    /\ UNCHANGED << engineState, decimalPoint, patternVars, locals, audioSeen, published,
                   crashed, gridVars, m_nCursorIndexPosition >>

\* The input dialog is closed with the text qtmp: the handler runs on, to
\* its end, or to the "length may be approximated" box, or past
\* m_pPattern->set_length( nLength ).  It reads the display, the pattern and
\* its denominator as they are now, and does not read the engine state again.
patternSizeTextChecked(bIsOkPressed, qtmp, o) ==
    LET bCrash == o.result = "crash" \/ (WritesAtOnce(o) /\ m_pPattern = "null")
        bOn == o.result = "accepted" /\ ~bCrash
    IN  /\ ~crashed
        /\ guiPc = "getText"
        /\ patLength' = LengthAfter(o)
        /\ guiPc' = IF bCrash \/ o.result # "accepted" THEN "idle"
                    ELSE IF InformationShown(o) THEN "information"
                    ELSE "set_denominator"
        /\ locals' = IF bOn THEN Locals(bIsOkPressed, qtmp, o) ELSE NoLocals
        /\ crashed' = bCrash
        /\ call' = CallRecord("patternSizeLCDClicked", bIsOkPressed, qtmp,
                              IF bCrash THEN [o EXCEPT !.result = "crash"]
                              ELSE IF InformationShown(o) THEN [o EXCEPT !.result = "information"]
                              ELSE IF o.result = "accepted" THEN [o EXCEPT !.result = "set_length"]
                              ELSE o)
        /\ UNCHANGED << engineState, decimalPoint, m_pPattern, patDenominator, sizeLCD,
                       denominatorWarning, audioSeen, published, gridVars,
                       m_nCursorIndexPosition >>

\* QInputDialog::getText returns bIsOkPressed and the text qtmp
patternSizeGetText(bIsOkPressed, qtmp) ==
    /\ guiPc = "getText"
    /\ \E o \in { SizeOutcome(bIsOkPressed, qtmp, nNullRead) : nNullRead \in NullRead } :
           patternSizeTextChecked(bIsOkPressed, qtmp, o)

\* The "length may be approximated" box is closed: nLength is computed and
\* m_pPattern->set_length( nLength ) runs, on the pattern selected now.
patternSizeSetLength ==
    /\ ~crashed
    /\ guiPc = "information"
    /\ crashed' = (m_pPattern = "null")
    /\ patLength' = IF m_pPattern = "null" THEN patLength ELSE locals.nLength
    /\ guiPc' = IF m_pPattern = "null" THEN "idle" ELSE "set_denominator"
    /\ locals' = IF m_pPattern = "null" THEN NoLocals ELSE locals
    /\ call' = CallRecord("patternSizeLCDClicked", locals.ok, locals.text,
                          Outcome(IF m_pPattern = "null" THEN "crash" ELSE "set_length",
                                  locals.msgs, locals.nLength, locals.nDenominator))
    /\ UNCHANGED << engineState, decimalPoint, m_pPattern, patDenominator, sizeLCD,
                   denominatorWarning, audioSeen, published, gridVars,
                   m_nCursorIndexPosition >>

\* m_pPattern->set_denominator( nDenominator ), patternLengthChanged() and
\* the test for the "size was approximated" box: the end of the handler.
\* The EVENT_SELECTED_PATTERN_CHANGED it queues is delivered later, as a
\* selectedPatternChangedEvent step of its own.
patternSizeSetDenominator ==
    LET approximated ==
            IF SizeWasApproximated(locals.nLength, locals.nDenominator, locals.fNumerator)
            THEN {"SizeApproximated"} ELSE {}
    IN
    /\ ~crashed
    /\ guiPc = "set_denominator"
    /\ patDenominator' = locals.nDenominator
    /\ published' = <<patLength, patDenominator'>>
    /\ sizeLCD' = patternSizeText(patLength, patDenominator', decimalPoint)
    /\ denominatorWarning' = ShowDenominatorWarning(patDenominator')
    /\ guiPc' = "idle"
    /\ locals' = NoLocals
    /\ call' = CallRecord("patternSizeLCDClicked", locals.ok, locals.text,
                          Outcome("accepted", locals.msgs \cup approximated, locals.nLength,
                                  locals.nDenominator))
    /\ UNCHANGED << engineState, decimalPoint, m_pPattern, patLength, audioSeen, crashed,
                   gridVars, m_nCursorIndexPosition >>

\* the audio-processing thread reads the pattern's length and denominator
audioRead ==
    /\ ~crashed
    /\ audioSeen' = [ length |-> patLength, denominator |-> patDenominator,
                      complete |-> IF guiPc = "set_denominator"
                                   THEN { published, <<locals.nLength, locals.nDenominator>> }
                                   ELSE { published } ]
    /\ UNCHANGED << engineState, decimalPoint, patternVars, guiPc, locals, published,
                   crashed, gridVars, m_nCursorIndexPosition, call >>


\* ------------------------------------------------------------------------
\* PatternEditorPanel::selectedPatternChangedEvent and the engine state
\* ------------------------------------------------------------------------

\* places where the GUI thread is in its event loop: idle, or inside the
\* event loop of a dialog the handler has opened
EventLoop == { "idle", "getText", "information", "tupletGetText", "tupletInformation" }

\* bValid: the selected pattern number is an index of the pattern list
selectedPatternChangedEvent(bValid) ==
    /\ ~crashed
    /\ guiPc \in EventLoop
    /\ m_pPattern' = IF bValid THEN "pattern" ELSE "null"
    /\ sizeLCD' = IF bValid THEN patternSizeText(patLength, patDenominator, decimalPoint)
                  ELSE sizeLCD
    /\ denominatorWarning' = IF bValid THEN ShowDenominatorWarning(patDenominator)
                             ELSE denominatorWarning
    /\ call' = [ op |-> "selectedPatternChangedEvent", ok |-> bValid, text |-> << >>,
                 result |-> "done", msgs |-> {}, nLength |-> 0, nDenominator |-> 0 ]
    /\ UNCHANGED << engineState, decimalPoint, patLength, patDenominator, guiPc, locals,
                   audioSeen, published, crashed, gridVars, m_nCursorIndexPosition >>

\* playback starts or stops, also while a dialog of the handler is open
engineStateChanged ==
    /\ ~crashed
    /\ guiPc \in EventLoop
    /\ engineState' = IF engineState = "READY" THEN "PLAYING" ELSE "READY"
    /\ UNCHANGED << decimalPoint, patternVars, guiPc, locals, audioSeen, published, crashed,
                   gridVars, m_nCursorIndexPosition, call >>

\* ------------------------------------------------------------------------
\* PatternEditorPanel::gridResolutionChanged
\* ------------------------------------------------------------------------

Editors == { "drum", "pianoRoll", "velocity", "pan", "leadLag", "noteKey", "probability" }

\* the entries of __resolution_combo that are not separators
SelectableEntries == (0..4) \cup (6..9) \cup {11}

\* nResolution of the selected entry
GridResolution(nSelected) ==
    IF nSelected = 11 THEN MAX_NOTES
    ELSE IF nSelected > 4 THEN 2 ^ (nSelected - 4)
    ELSE 2 ^ (nSelected + 2)

\* the entry writes a tuplet ratio (off: 4:4, triplets: 3:2)
GridSetsTuplet(nSelected) == nSelected = 11 \/ nSelected > 4

GridTuplet(nSelected) == IF nSelected = 11 THEN <<4, 4>> ELSE <<3, 2>>

\* ( nTupletNumerator == 3 ? 4 : 3 ) * MAX_NOTES / ( nResolution * 3 )
CursorIncrement(nTupletNumerator, nResolution) ==
    ((IF nTupletNumerator = 3 THEN 4 ELSE 3) * MAX_NOTES) \div (nResolution * 3)

\* "%1:%2"
RatioText(nTupletNumerator, nTupletDenominator) ==
    IntText(nTupletNumerator) \o <<":">> \o IntText(nTupletDenominator)

\* PatternEditor::setResolution on every editor
setResolutionToAllEditors(eds, nResolution) ==
    [e \in Editors |-> [eds[e] EXCEPT !.resolution = nResolution]]

\* variant: the pan editor is left out
setTupletRatioToAllEditorsButPan(eds, nTupletNum, nTupletDen) ==
    [e \in Editors |-> IF e = "pan" THEN eds[e]
                       ELSE [eds[e] EXCEPT !.tupletNumerator = nTupletNum,
                                           !.tupletDenominator = nTupletDen]]

\* PatternEditor::setTupletRatio on every editor
setTupletRatioToAllEditors(eds, nTupletNum, nTupletDen) ==
    [e \in Editors |-> [eds[e] EXCEPT !.tupletNumerator = nTupletNum,
                                      !.tupletDenominator = nTupletDen]]

gridResolutionChanged(nSelected) ==
    LET nResolution == GridResolution(nSelected)
        ratio == IF GridSetsTuplet(nSelected) THEN GridTuplet(nSelected)
                 ELSE <<pref.tupletNumerator, pref.tupletDenominator>>
    IN  /\ ~crashed
        /\ guiPc = "idle"
        /\ pref' = [ resolution |-> nResolution, tupletNumerator |-> ratio[1],
                     tupletDenominator |-> ratio[2] ]
        /\ tupletLCD' = IF GridSetsTuplet(nSelected) THEN RatioText(ratio[1], ratio[2])
                        ELSE tupletLCD
        /\ m_nTupletNumerator' = IF GridSetsTuplet(nSelected) THEN ratio[1]
                                 ELSE m_nTupletNumerator
        /\ m_nTupletDenominator' = IF GridSetsTuplet(nSelected) THEN ratio[2]
                                   ELSE m_nTupletDenominator
        /\ m_nResolution' = nResolution
        /\ editors' = setResolutionToAllEditors(
                          IF GridSetsTuplet(nSelected)
                          THEN setTupletRatioToAllEditors(editors, ratio[1], ratio[2])
                          ELSE editors,
                          nResolution)
        /\ m_nCursorIncrement' = CursorIncrement(ratio[1], nResolution)
        /\ call' = [ op |-> "gridResolutionChanged", ok |-> TRUE, text |-> IntText(nSelected),
                     result |-> "done", msgs |-> {}, nLength |-> 0, nDenominator |-> 0 ]
        /\ UNCHANGED << engineState, decimalPoint, patternVars, guiPc, locals, audioSeen, published,
                       crashed, m_nCursorIndexPosition >>

\* ------------------------------------------------------------------------
\* PatternEditorPanel::tupletLCDClicked
\* ------------------------------------------------------------------------

\* variant: no upper limit on the denominator
TupletDenominatorRejectedNoUpper(nTupletDenominator) == nTupletDenominator <= 0

\* "Denominator value rejected. Limits: (0, MAX_NOTES]"
TupletDenominatorRejected(nTupletDenominator) ==
    nTupletDenominator <= 0 \/ nTupletDenominator > MAX_NOTES

\* variant: the limit is one too high
TupletNumeratorTooBigOffByOne(nTupletNumerator) == nTupletNumerator > 21

\* "Tuplet numerator too big. Maximum = 20"
TupletNumeratorTooBig(nTupletNumerator) == nTupletNumerator > 20

\* 2 * n leaves the range of int
TimesTwoOverflows(n) ==
    LET h == (INT_MAX \div 2) + 1
    IN  n >= h \/ n < 0 - h

\* 2 * n as a build that wraps signed arithmetic computes it (modulo 2^32)
TimesTwo(n) ==
    LET h == (INT_MAX \div 2) + 1
    IN  IF n >= h THEN ((n - h) * 2 - h) - h
        ELSE IF n < 0 - h THEN ((n + h) * 2 + h) + h
        ELSE 2 * n

\* some evaluation of 2 * nTupletDenominator in the loop overflows
RECURSIVE LoopOverflows(_, _)
LoopOverflows(nTupletDenominator, nTupletNumerator) ==
    \/ TimesTwoOverflows(nTupletDenominator)
    \/ /\ 2 * nTupletDenominator <= nTupletNumerator
       /\ LoopOverflows(2 * nTupletDenominator, nTupletNumerator)

\* the wrapping loop comes back to a value nTupletDenominator had before
RECURSIVE LoopHangs(_, _, _)
LoopHangs(nTupletDenominator, nTupletNumerator, seen) ==
    /\ TimesTwo(nTupletDenominator) <= nTupletNumerator
    /\ \/ TimesTwo(nTupletDenominator) \in seen \cup {nTupletDenominator}
       \/ LoopHangs(TimesTwo(nTupletDenominator), nTupletNumerator,
                    seen \cup {nTupletDenominator})

\* while ( ( 2 * nTupletDenominator ) <= nTupletNumerator ) nTupletDenominator *= 2
RECURSIVE StandardDenominatorLoop(_, _)
StandardDenominatorLoop(nTupletDenominator, nTupletNumerator) ==
    IF TimesTwo(nTupletDenominator) <= nTupletNumerator
    THEN StandardDenominatorLoop(TimesTwo(nTupletDenominator), nTupletNumerator)
    ELSE nTupletDenominator

\* variant: the loop runs while nTupletDenominator < nTupletNumerator
RECURSIVE StandardDenominatorLoopStrict(_, _)
StandardDenominatorLoopStrict(nTupletDenominator, nTupletNumerator) ==
    IF nTupletDenominator < nTupletNumerator
    THEN StandardDenominatorLoopStrict(TimesTwo(nTupletDenominator), nTupletNumerator)
    ELSE nTupletDenominator

StandardDenominatorStrict(nTupletNumerator) == StandardDenominatorLoopStrict(1, nTupletNumerator)

\* the denominator computed when the user enters the numerator only
StandardDenominator(nTupletNumerator) == StandardDenominatorLoop(1, nTupletNumerator)

\* what a build makes of a signed overflow, which the language leaves
\* undefined: the value wraps, or the operation traps
SignedOverflow == {"wraps", "traps"}

\* variant: a numerator of 0 passes
TupletNumeratorAcceptedFromZero(bOk, nTupletNumerator) == bOk /\ nTupletNumerator >= 0

\* bOk && nTupletNumerator > 0
TupletNumeratorAccepted(bOk, nTupletNumerator) == bOk /\ nTupletNumerator > 0

\* The path the handler takes on the text qtmp; nLength holds the numerator.
\* nOverflow is what the build makes of an overflow of 2 * nTupletDenominator:
\* where it traps the handler ends the program ("crash"), where it wraps
\* and the loop never ends the handler does not return ("hang").
TupletOutcome(bIsOkPressed, qtmp, nOverflow) ==
    IF ~bIsOkPressed THEN Outcome("cancelled", {}, 0, 0)
    ELSE IF tupletLCD = qtmp THEN Outcome("unchanged", {}, 0, 0)
    ELSE
    LET parts == split(qtmp, ":")
        num   == toInt(parts[1])
        both  == num.ok /\ Len(parts) = 2
        den   == IF both THEN toInt(parts[2])
                 ELSE [ok |-> num.ok, val |-> StandardDenominator(num.val)]
    IN  IF Len(parts) > 2 THEN Outcome("rejected", {"TextRejected"}, 0, 0)
        ELSE IF ~both /\ LoopOverflows(1, num.val) /\ nOverflow = "traps"
             THEN Outcome("crash", {}, num.val, 0)
        ELSE IF ~both /\ LoopHangs(1, num.val, {})
             THEN Outcome("hang", {}, num.val, 0)
        ELSE IF both /\ den.ok /\ TupletDenominatorRejected(den.val)
             THEN Outcome("rejected", {"DenominatorRejected"}, num.val, den.val)
        ELSE IF ~TupletNumeratorAccepted(den.ok, num.val)
             THEN Outcome("rejected", {"TextRejected"}, num.val, den.val)
        ELSE IF TupletNumeratorTooBig(num.val)
             THEN Outcome("rejected", {"TupletNumeratorTooBig"}, num.val, den.val)
        ELSE Outcome("accepted", {}, num.val, den.val)

\* variant: the ratio is stored before the numerator limit is tested
TupletAppliedBeforeLimit(o) ==
    o.result = "accepted" \/ "TupletNumeratorTooBig" \in o.msgs

\* the handler reaches the block that stores the ratio and sets the display
TupletApplied(o) == o.result = "accepted"

\* The handler from its entry to QInputDialog::getText: it reads the ratio
\* kept in Preferences for the text the dialog opens with and opens the
\* input dialog, whose event loop lets other events of the application run.
tupletLCDClicked ==
    /\ ~crashed
    /\ guiPc = "idle"
    /\ guiPc' = "tupletGetText"
    /\ call' = CallRecord("tupletLCDClicked", FALSE, << >>, Outcome("getText", {}, 0, 0))
    /\ UNCHANGED << engineState, decimalPoint, patternVars, locals, audioSeen, published,
                   crashed, gridVars, m_nCursorIndexPosition >>

\* QInputDialog::getText returns bIsOkPressed and the text qtmp: the
\* handler runs on to its end.  It reads the tuplet display as it is now.
\* Where it rejects the text it shows a box, whose event loop runs before
\* the handler returns.
tupletGetText(bIsOkPressed, qtmp) ==
    /\ guiPc = "tupletGetText"
    /\ \E o \in { TupletOutcome(bIsOkPressed, qtmp, nOverflow) : nOverflow \in SignedOverflow } :
        LET acc == TupletApplied(o)
        IN  /\ ~crashed
            /\ pref' = IF acc THEN [pref EXCEPT !.tupletNumerator = o.nLength,
                                                !.tupletDenominator = o.nDenominator]
                       ELSE pref
            /\ m_nTupletNumerator' = IF acc THEN o.nLength ELSE m_nTupletNumerator
            /\ m_nTupletDenominator' = IF acc THEN o.nDenominator ELSE m_nTupletDenominator
            /\ editors' = IF acc THEN setTupletRatioToAllEditors(editors, o.nLength, o.nDenominator)
                          ELSE editors
            /\ tupletLCD' = IF acc THEN RatioText(o.nLength, o.nDenominator) ELSE tupletLCD
            /\ guiPc' = IF o.result = "hang" THEN "tupletLoop"
                        ELSE IF o.result = "rejected" THEN "tupletInformation"
                        ELSE "idle"
            /\ crashed' = (o.result = "crash")
            /\ call' = CallRecord("tupletLCDClicked", bIsOkPressed, qtmp, o)
            /\ UNCHANGED << engineState, decimalPoint, patternVars, locals, audioSeen, published,
                           m_nResolution, m_nCursorIncrement, m_nCursorIndexPosition >>

\* the box telling why the text was rejected is closed: the handler returns
tupletInformationClosed ==
    /\ ~crashed
    /\ guiPc = "tupletInformation"
    /\ guiPc' = "idle"
    /\ UNCHANGED << engineState, decimalPoint, patternVars, locals, audioSeen, published,
                   crashed, gridVars, m_nCursorIndexPosition, call >>


\* ------------------------------------------------------------------------
\* PatternEditor: the grid of one editor (PatternEditor.h)
\* ------------------------------------------------------------------------

\* variant: the tuplet ratio upside down
granularitySwapped(nResolution, nTupletNumerator, nTupletDenominator) ==
    FloatDiv(MAX_NOTES * nTupletNumerator, nTupletDenominator * nResolution)

\* (float) MAX_NOTES * m_nTupletDenominator / ( m_nTupletNumerator * m_nResolution )
granularity(nResolution, nTupletNumerator, nTupletDenominator) ==
    FloatDiv(MAX_NOTES * nTupletDenominator, nTupletNumerator * nResolution)

\* PatternEditor::setTupletResolution on the editor e
setTupletResolution(e, nRes, nTupletNum, nTupletDen) ==
    /\ ~crashed
    /\ guiPc = "idle"
    /\ editors' = [editors EXCEPT ![e] = [ resolution |-> nRes,
                                           tupletNumerator |-> nTupletNum,
                                           tupletDenominator |-> nTupletDen ]]
    /\ call' = [ op |-> "setTupletResolution", result |-> "done" ]
    /\ UNCHANGED << engineState, decimalPoint, patternVars, guiPc, locals, audioSeen, published,
                   crashed, pref, m_nResolution, m_nTupletNumerator, m_nTupletDenominator,
                   tupletLCD, m_nCursorIncrement, m_nCursorIndexPosition >>

\* PatternEditor::granularity called on the editor e; ret is the float returned
editorGranularity(e) ==
    LET g == granularity(editors[e].resolution, editors[e].tupletNumerator,
                         editors[e].tupletDenominator)
    IN  /\ ~crashed
        /\ guiPc = "idle"
        /\ call' = [ op |-> "granularity", result |-> "done", ret |-> g ]
        /\ UNCHANGED << engineState, decimalPoint, patternVars, guiPc, locals, audioSeen, published,
                       crashed, gridVars, m_nCursorIndexPosition >>

\* use it to add a left margin in the editor, before the first tick
m_nMargin == 20

\* PatternEditor::getFloatColumn: the pixel position x, less the margin, in
\* ticks and unrounded, as the fraction <<p, q>>; fGridWidth is the width of
\* a tick in pixels, the fraction <<n, d>>
getFloatColumn(x, fGridWidth) ==
    << (x - m_nMargin) * fGridWidth[2], fGridWidth[1] >>

\* variant: the index of the grid mark at or before the position
GridIndexFloored(fColumn, g) == (fColumn[1] * g[2]) \div (fColumn[2] * g[1])

\* the index of the grid mark nearest to the position fColumn (in ticks):
\* round( fColumn / granularity() )
GridIndex(fColumn, g) == RoundDiv(fColumn[1] * g[2], fColumn[2] * g[1])

\* PatternEditor::getGridIndex
getGridIndex(x, fGridWidth, g) == GridIndex(getFloatColumn(x, fGridWidth), g)

\* the tick of the grid mark nearest to the position fColumn:
\* round( index * granularity() )
SnappedColumn(fColumn, g) == RoundDiv(GridIndex(fColumn, g) * g[1], g[2])

\* the tick nColumn brought into [0, nLength)
ClampedColumn(nColumn, nLength) ==
    IF nColumn >= nLength THEN nLength - 1 ELSE IF nColumn < 0 THEN 0 ELSE nColumn

\* the tick of the grid mark nearest to the position fColumn, a position
\* left of the first tick taken as tick 0, brought into the pattern
ColumnOfTick(fColumn, g, nLength) ==
    IF fColumn[1] < 0 THEN 0 ELSE ClampedColumn(SnappedColumn(fColumn, g), nLength)

\* PatternEditor::getColumn: the tick of the nearest grid mark, or with
\* bUseFineGrained the nearest tick, brought into [0, nLength)
getColumn(x, bUseFineGrained, fGridWidth, g, nLength) ==
    IF bUseFineGrained
    THEN IF x < m_nMargin THEN 0
         ELSE ClampedColumn(RoundDiv(getFloatColumn(x, fGridWidth)[1],
                                     getFloatColumn(x, fGridWidth)[2]), nLength)
    ELSE ColumnOfTick(getFloatColumn(x, fGridWidth), g, nLength)

\* getColumn called on the editor e; arg holds the pixel position, the flag
\* and the width of a tick, ret the tick returned
editorGetColumn(e, x, bUseFineGrained, fGridWidth) ==
    /\ ~crashed
    /\ guiPc = "idle"
    /\ call' = [ op |-> "getColumn", arg |-> << x, bUseFineGrained, fGridWidth >>,
                 result |-> "done",
                 ret |-> getColumn(x, bUseFineGrained, fGridWidth,
                                   granularity(editors[e].resolution,
                                               editors[e].tupletNumerator,
                                               editors[e].tupletDenominator),
                                   patLength) ]
    /\ UNCHANGED << engineState, decimalPoint, patternVars, guiPc, locals, audioSeen, published,
                   crashed, gridVars, m_nCursorIndexPosition >>

\* ------------------------------------------------------------------------
\* float on every value of its range: IEEE single precision with zeros of
\* either sign, infinities and NaN, as the panel meets them while its
\* tuplet members hold what the allocation left.  A value is a record like
\* a double's: sign, m and e of m * 2^e, the m of a normal value having
\* SingleDigits binary digits.
\* ------------------------------------------------------------------------

SingleDigits == 24
SingleMinExp == 0 - 149
SingleMaxExp == 128

SingleZero == [cls |-> "finite", neg |-> FALSE, m |-> << >>, e |-> SingleMinExp]

\* the least int
INT_MIN == (0 - INT_MAX) - 1

\* x with the sign bNeg; a NaN has none
Signed(x, bNeg) == IF x.cls = "nan" THEN x ELSE [x EXCEPT !.neg = bNeg]

IsZero(x) == x.cls = "finite" /\ Len(x.m) = 0

\* The float nearest to (n + f) * 2^e, ties to the even significand, where
\* 0 <= f < 1 and sticky says f > 0; n has two digits more than the
\* significand, or reaches below the least exponent, whenever sticky holds
SingleNearest(n, e, sticky) ==
    LET bits == BigBits(n)
        drop == IF bits - SingleDigits > SingleMinExp - e
                THEN bits - SingleDigits ELSE SingleMinExp - e
        q2   == BigShiftRight(n, drop - 1)
        st   == sticky \/ BigLowBits(n, drop - 1)
        q    == BigShiftRight(q2, 1)
        up   == BigOdd(q2) /\ (st \/ BigOdd(q))
        r    == IF up THEN BigAdd(q, <<1>>) ELSE q
    IN  IF Len(n) = 0 THEN SingleZero
        ELSE IF drop <= 0
        THEN IF bits + e > SingleMaxExp THEN DoubleInf
             ELSE [cls |-> "finite", neg |-> FALSE, m |-> BigShiftLeft(n, 0 - drop), e |-> e + drop]
        ELSE IF Len(r) = 0 THEN SingleZero
        ELSE IF BigBits(r) > SingleDigits
        THEN IF e + drop + 1 + SingleDigits > SingleMaxExp THEN DoubleInf
             ELSE [cls |-> "finite", neg |-> FALSE, m |-> BigShiftRight(r, 1), e |-> e + drop + 1]
        ELSE IF BigBits(r) + e + drop > SingleMaxExp THEN DoubleInf
        ELSE [cls |-> "finite", neg |-> FALSE, m |-> r, e |-> e + drop]

\* |n| for an int n
BigOfAbs(n) ==
    IF n >= 0 THEN BigOfInt(n)
    ELSE IF n = INT_MIN THEN BigShiftLeft(<<1>>, 31)
    ELSE BigOfInt(0 - n)

\* (float) n for an int n
SingleOfInt(n) == Signed(SingleNearest(BigOfAbs(n), 0, FALSE), n < 0)

\* x * y, the product rounded to float
SingleTimes(x, y) ==
    IF x.cls = "nan" \/ y.cls = "nan" THEN DoubleNaN
    ELSE IF x.cls = "inf" \/ y.cls = "inf"
    THEN IF IsZero(x) \/ IsZero(y) THEN DoubleNaN
         ELSE Signed(DoubleInf, x.neg # y.neg)
    ELSE Signed(SingleNearest(BigMul(x.m, y.m), x.e + y.e, FALSE), x.neg # y.neg)

\* Binary long division of two significands: the quotient q of at least 26
\* digits, or fewer where the division ends, the remainder r and the
\* exponent e of the last digit of q.
RECURSIVE QuotientDigits(_, _, _, _)
QuotientDigits(q, r, d, e) ==
    IF r = 0 \/ q >= 2 ^ 25 THEN [q |-> q, r |-> r, e |-> e]
    ELSE IF 2 * r >= d THEN QuotientDigits(2 * q + 1, 2 * r - d, d, e - 1)
    ELSE QuotientDigits(2 * q, 2 * r, d, e - 1)

\* x / y, the quotient rounded to float
SingleOver(x, y) ==
    IF x.cls = "nan" \/ y.cls = "nan" THEN DoubleNaN
    ELSE IF x.cls = "inf"
    THEN IF y.cls = "inf" THEN DoubleNaN ELSE Signed(DoubleInf, x.neg # y.neg)
    ELSE IF y.cls = "inf" THEN Signed(SingleZero, x.neg # y.neg)
    ELSE IF IsZero(y)
    THEN IF IsZero(x) THEN DoubleNaN ELSE Signed(DoubleInf, x.neg # y.neg)
    ELSE LET t == QuotientDigits(BigToInt(x.m) \div BigToInt(y.m),
                                 BigToInt(x.m) % BigToInt(y.m), BigToInt(y.m), x.e - y.e)
         IN  Signed(SingleNearest(BigOfInt(t.q), t.e, t.r # 0), x.neg # y.neg)

\* The integer next to a float: round( x ), halves away from zero, with
\* bRound, else x without its fraction as the (int) cast takes it.  An
\* integer of the range of int is given as "int" with its value; "nan",
\* "above" and "below" stand for a NaN and for what lies beyond that range.
IntegerOf(x, bRound) ==
    LET nShift == 0 - x.e
        k == IF x.e >= 0 THEN BigToInt(BigShiftLeft(x.m, x.e))
             ELSE IF bRound THEN (BigToInt(BigShiftRight(x.m, nShift - 1)) + 1) \div 2
             ELSE BigToInt(BigShiftRight(x.m, nShift))
        beyond == [cls |-> IF x.neg THEN "below" ELSE "above", val |-> 0]
    IN  IF x.cls = "nan" THEN [cls |-> "nan", val |-> 0]
        ELSE IF x.cls = "inf" \/ BigBits(x.m) + x.e > 32 THEN beyond
        ELSE IF BigBits(x.m) + x.e = 32
        THEN IF x.neg /\ x.m = BigShiftLeft(<<1>>, BigBits(x.m) - 1)
             THEN [cls |-> "int", val |-> INT_MIN]
             ELSE beyond
        ELSE [cls |-> "int", val |-> IF x.neg THEN 0 - k ELSE k]

\* What the conversion to int makes of a value that has no int: the
\* behaviour is undefined; the conversion instruction gives the "integer
\* indefinite" INT_MIN, or a saturating conversion gives 0 for a NaN and
\* else the nearest int.
FloatToInt == {"indefinite", "saturates"}

\* the conversion of the integer i to int
IntCast(i, nCast) ==
    IF i.cls = "int" THEN i.val
    ELSE IF nCast = "indefinite" THEN INT_MIN
    ELSE IF i.cls = "nan" THEN 0
    ELSE IF i.cls = "above" THEN INT_MAX
    ELSE INT_MIN

\* i > n and i >= n for an int n: no comparison with a NaN holds
IntegerAbove(i, n) == (i.cls = "int" /\ i.val > n) \/ i.cls = "above"

IntegerAtLeast(i, n) == (i.cls = "int" /\ i.val >= n) \/ i.cls = "above"

\* round( n ) * g: the product of the double round( n ), n an int, with the
\* float g, rounded to double
DoubleOfProduct(n, g) ==
    IF g.cls = "nan" THEN DoubleNaN
    ELSE IF g.cls = "inf"
    THEN IF n = 0 THEN DoubleNaN ELSE Signed(DoubleInf, (n < 0) # g.neg)
    ELSE Signed(DoubleNearest(BigMul(BigOfAbs(n), g.m), g.e, FALSE), (n < 0) # g.neg)

\* x < n for a double x and an int n >= 0
DoubleBelowInt(x, n) ==
    IF x.cls = "nan" THEN FALSE
    ELSE IF x.neg THEN n > 0 \/ DoublePositive(DoubleNegated(x))
    ELSE DoubleGreater(DoubleOfInt(n), x)

\* the digit i of a, 0 beyond its last
Limb(a, i) == IF i <= Len(a) THEN a[i] ELSE 0

\* a modulo 2^32, the value an unsigned int holds, in 0 .. 2^32 - 1
BigWrapped(a) ==
    BigAdd(BigOfInt(Limb(a, 1) + LimbBase * Limb(a, 2)),
           BigShiftLeft(BigOfInt(Limb(a, 3) % 4), 2 * LimbBits))

\* the int n converted to unsigned int: n itself, or 2^32 + n for n < 0
UnsignedOf(n) ==
    IF n >= 0 THEN BigOfInt(n)
    ELSE BigAdd(BigOfInt((n + INT_MAX) + 1), BigShiftLeft(<<1>>, 31))

\* n * k for an int n and an unsigned int k, 0 < k <= 2^15: the usual
\* arithmetic conversions make n unsigned and the product is taken modulo
\* 2^32; no value of n overflows it
UnsignedProduct(n, k) == BigWrapped(BigMulAdd(UnsignedOf(n), k, 0))

\* (float) a for an unsigned int a
SingleOfUnsigned(a) == SingleNearest(a, 0, FALSE)

\* ------------------------------------------------------------------------
\* The cursor of the panel: an index of a grid mark
\* ------------------------------------------------------------------------

\* PatternEditorPanel::granularity, on the panel's copy of the grid:
\* (float) MAX_NOTES * m_nTupletDenominator / ( m_nTupletNumerator * m_nResolution ),
\* m_nResolution an unsigned int and the product of the divisor unsigned
PanelGranularity ==
    SingleOver(SingleTimes(SingleOfInt(MAX_NOTES), SingleOfInt(m_nTupletDenominator)),
               SingleOfUnsigned(UnsignedProduct(m_nTupletNumerator, m_nResolution)))

\* round( m_nCursorIndexPosition * granularity() ) converted to int
CursorPosition(nIndex, g, nCast) ==
    IntCast(IntegerOf(SingleTimes(SingleOfInt(nIndex), g), TRUE), nCast)

\* nIndex + 1 modulo 2^32
NextIndex(nIndex) == IF nIndex = INT_MAX THEN INT_MIN ELSE nIndex + 1

\* round( m_nCursorIndexPosition + 1 ) * granularity() < m_pPattern->get_length():
\* round() is applied to the integer nNext, the product is a double
MayMoveRight(nNext, g, nLength) == DoubleBelowInt(DoubleOfProduct(nNext, g), nLength)

\* variant: an index at the pattern length itself is kept
IndexBeyondLengthStrict(nGridIndex, g, nLength) ==
    IntegerAbove(IntegerOf(SingleTimes(SingleOfInt(nGridIndex), g), TRUE), nLength)

\* round( nGridIndex * granularity() ) >= m_pPattern->get_length()
IndexBeyondLength(nGridIndex, g, nLength) ==
    IntegerAtLeast(IntegerOf(SingleTimes(SingleOfInt(nGridIndex), g), TRUE), nLength)

\* m_pPattern->get_length() / granularity(), floored by the (int) cast
ClampedIndex(nLength, g, nCast) ==
    IntCast(IntegerOf(SingleOver(SingleOfInt(nLength), g), FALSE), nCast)

\* round( nColumn / granularity() ) converted to int
IndexOfColumn(nColumn, g, nCast) ==
    IntCast(IntegerOf(SingleOver(SingleOfInt(nColumn), g), TRUE), nCast)

\* A cursor call: arg its argument, ret the value returned (or stored);
\* result "crash" when it read the length of a null pattern, or where the
\* build traps on the overflow of m_nCursorIndexPosition + 1.
CursorCall(op, arg, result, ret) ==
    [ op |-> op, arg |-> arg, result |-> result, ret |-> ret ]

getCursorPosition ==
    /\ ~crashed
    /\ guiPc = "idle"
    /\ \E nCast \in FloatToInt :
        call' = CursorCall("getCursorPosition", 0, "done",
                           CursorPosition(m_nCursorIndexPosition, PanelGranularity, nCast))
    /\ UNCHANGED << engineState, decimalPoint, patternVars, guiPc, locals, audioSeen, published,
                   gridVars, m_nCursorIndexPosition, crashed >>

\* ensureCursorVisible() scrolls the view, which is no part of the state
moveCursorLeft ==
    /\ ~crashed
    /\ guiPc = "idle"
    /\ m_nCursorIndexPosition' = IF m_nCursorIndexPosition > 0
                                 THEN m_nCursorIndexPosition - 1
                                 ELSE m_nCursorIndexPosition
    /\ call' = CursorCall("moveCursorLeft", 0, "done", m_nCursorIndexPosition')
    /\ UNCHANGED << engineState, decimalPoint, patternVars, guiPc, locals, audioSeen, published,
                   gridVars, crashed >>

moveCursorRight ==
    /\ ~crashed
    /\ guiPc = "idle"
    /\ \E nOverflow \in SignedOverflow :
        LET bCrash == \/ m_pPattern = "null"
                      \/ (nOverflow = "traps" /\ m_nCursorIndexPosition = INT_MAX)
        IN  /\ crashed' = bCrash
            /\ m_nCursorIndexPosition' =
                   IF ~bCrash /\ MayMoveRight(NextIndex(m_nCursorIndexPosition),
                                              PanelGranularity, patLength)
                   THEN NextIndex(m_nCursorIndexPosition)
                   ELSE m_nCursorIndexPosition
            /\ call' = CursorCall("moveCursorRight", 0,
                                  IF bCrash THEN "crash" ELSE "done",
                                  m_nCursorIndexPosition')
    /\ UNCHANGED << engineState, decimalPoint, patternVars, guiPc, locals, audioSeen, published,
                   gridVars >>

setCursorIndexPosition(nGridIndex) ==
    /\ ~crashed
    /\ guiPc = "idle"
    /\ \E nCast \in FloatToInt :
        LET bCrash == nGridIndex >= 0 /\ m_pPattern = "null"
        IN  /\ crashed' = bCrash
            /\ m_nCursorIndexPosition' =
                   IF nGridIndex < 0 THEN 0
                   ELSE IF bCrash THEN m_nCursorIndexPosition
                   ELSE IF IndexBeyondLength(nGridIndex, PanelGranularity, patLength)
                   THEN ClampedIndex(patLength, PanelGranularity, nCast)
                   ELSE nGridIndex
            /\ call' = CursorCall("setCursorIndexPosition", nGridIndex,
                                  IF bCrash THEN "crash" ELSE "done",
                                  m_nCursorIndexPosition')
    /\ UNCHANGED << engineState, decimalPoint, patternVars, guiPc, locals, audioSeen, published,
                   gridVars >>

setCursorPosition(nColumn) ==
    /\ ~crashed
    /\ guiPc = "idle"
    /\ \E nCast \in FloatToInt :
        LET bCrash == nColumn >= 0 /\ m_pPattern = "null"
        IN  /\ crashed' = bCrash
            /\ m_nCursorIndexPosition' =
                   IF nColumn < 0 THEN 0
                   ELSE IF bCrash THEN m_nCursorIndexPosition
                   ELSE IF nColumn >= patLength
                   THEN ClampedIndex(patLength, PanelGranularity, nCast)
                   ELSE IndexOfColumn(nColumn, PanelGranularity, nCast)
            /\ call' = CursorCall("setCursorPosition", nColumn,
                                  IF bCrash THEN "crash" ELSE "done",
                                  m_nCursorIndexPosition')
    /\ UNCHANGED << engineState, decimalPoint, patternVars, guiPc, locals, audioSeen, published,
                   gridVars >>

\* ------------------------------------------------------------------------
\* PatternEditorPanel::PatternEditorPanel
\* ------------------------------------------------------------------------

\* the grid settings found in Preferences at start-up
InitialPreferences ==
    { [resolution |-> r, tupletNumerator |-> t[1], tupletDenominator |-> t[2]] :
        r \in {4, 16, MAX_NOTES}, t \in { <<4, 4>>, <<3, 2>>, <<5, 4>> } }

\* the (length, denominator) of the pattern of the song at start-up
InitialPatterns == { <<192, 4>>, <<72, 8>> }

\* restore grid resolution: the combo entry selected by the constructor
RestoreIndex(nRes, nTupletNumerator, nTupletDenominator) ==
    IF nRes = MAX_NOTES THEN 11
    ELSE IF nTupletNumerator # 3 \/ nTupletDenominator # 2
    THEN CASE nRes = 4 -> 0 [] nRes = 8 -> 1 [] nRes = 16 -> 2
           [] nRes = 32 -> 3 [] nRes = 64 -> 4 [] OTHER -> 0
    ELSE CASE nRes = 4 -> 6 [] nRes = 8 -> 7 [] nRes = 16 -> 8
           [] nRes = 32 -> 9 [] OTHER -> 6

\* the tuplet text the constructor puts on m_pTupletLCD
InitialTupletText(nTupletNumerator, nTupletDenominator) ==
    IF nTupletNumerator = 4 /\ nTupletDenominator = 4 THEN <<"o", "f", "f">>
    ELSE RatioText(nTupletNumerator, nTupletDenominator)

\* The grid members of an editor before the constructor selects the
\* restored entry: the ratio kept in Preferences.
InitialGridMembers(p) ==
    [ resolution |-> p.resolution, tupletNumerator |-> p.tupletNumerator,
      tupletDenominator |-> p.tupletDenominator ]

\* Values of two ints that were never assigned.  The constructor assigns
\* m_nTupletNumerator and m_nTupletDenominator of the panel nowhere: the
\* only statements that do are those of setTupletRatioToAllEditors, which
\* gridResolutionChanged calls for the entry "off" and for the triplet
\* entries alone.  After any other restored entry the two members hold what
\* the allocation left there, whatever Preferences holds: zeros, a negative
\* value, a fill pattern, or values that happen to make a tuplet ratio.
UnwrittenTuplets ==
    { <<0, 0>>, <<-1, 7>>, <<1515870810, 1515870810>>,
      <<4, 4>>, <<5, 4>>, <<4, 5>>, <<1, 3>> }

\* The state the constructor leaves: p the grid settings found in
\* Preferences, pat the (length, denominator) of the pattern of the song,
\* bValid whether a pattern is selected, dp the decimal point of the locale,
\* unwritten the pair found in the panel's tuplet members where the
\* constructor does not assign them.
PatternEditorPanel(p, pat, bValid, dp, unwritten) ==
        LET nIndex == RestoreIndex(p.resolution, p.tupletNumerator, p.tupletDenominator)
            nResolution == GridResolution(nIndex)
            ratio == IF GridSetsTuplet(nIndex) THEN GridTuplet(nIndex)
                     ELSE <<p.tupletNumerator, p.tupletDenominator>>
            m == [ resolution |-> nResolution, tupletNumerator |-> ratio[1],
                   tupletDenominator |-> ratio[2] ]
        IN  /\ engineState = "READY"
            /\ decimalPoint = dp
            /\ m_nCursorIndexPosition = 0
            /\ pref = m
            /\ m_nResolution = nResolution
            /\ m_nTupletNumerator = IF GridSetsTuplet(nIndex) THEN ratio[1]
                                    ELSE unwritten[1]
            /\ m_nTupletDenominator = IF GridSetsTuplet(nIndex) THEN ratio[2]
                                      ELSE unwritten[2]
            /\ editors = setResolutionToAllEditors(
                             setTupletRatioToAllEditors(
                                 [e \in Editors |-> InitialGridMembers(p)],
                                 ratio[1], ratio[2]),
                             nResolution)
            /\ m_nCursorIncrement = CursorIncrement(ratio[1], nResolution)
            /\ tupletLCD = InitialTupletText(p.tupletNumerator, p.tupletDenominator)
            /\ patLength = pat[1]
            /\ patDenominator = pat[2]
            /\ m_pPattern = IF bValid THEN "pattern" ELSE "null"
            /\ sizeLCD = IF bValid THEN patternSizeText(pat[1], pat[2], dp) ELSE << >>
            /\ denominatorWarning = (bValid /\ ShowDenominatorWarning(pat[2]))
            /\ guiPc = "idle"
            /\ locals = NoLocals
            /\ audioSeen = [ length |-> pat[1], denominator |-> pat[2], complete |-> {pat} ]
            /\ published = pat
            /\ crashed = FALSE
            /\ call = [ op |-> "PatternEditorPanel", ok |-> TRUE, text |-> << >>,
                        result |-> "done", msgs |-> {}, nLength |-> 0, nDenominator |-> 0 ]

Init ==
    \E p \in InitialPreferences, pat \in InitialPatterns, bValid \in BOOLEAN,
       dp \in {".", ","}, unwritten \in UnwrittenTuplets :
        PatternEditorPanel(p, pat, bValid, dp, unwritten)

\* One of the states the panel's tuplet members are left in, taken where no
\* action of the specification reads or compares them.
PanelTupletUnread == m_nTupletNumerator = 0 /\ m_nTupletDenominator = 0

\* ------------------------------------------------------------------------
\* Specifications
\* ------------------------------------------------------------------------

\* the grid settings of a fresh installation: 1/16, tuplet off
DefaultPreferences == [resolution |-> 16, tupletNumerator |-> 4, tupletDenominator |-> 4]

\* the pattern length entry under the default grid
InitSize == Init /\ pref = DefaultPreferences /\ PanelTupletUnread

Next ==
    \/ patternSizeLCDClicked
    \/ \E t \in LengthTexts : patternSizeGetText(TRUE, t)
    \/ patternSizeGetText(FALSE, << >>)
    \/ patternSizeSetLength
    \/ patternSizeSetDenominator

Spec == InitSize /\ [][Next]_vars

\* the length expressions entered while other events are delivered
DialogLengthTexts == { <<"3", "/", "8">>, <<"1", "/", "5">>, <<"5">>, <<"x">> }

\* the pattern length entry next to the events the application handles
\* while a dialog of the handler is open: the selected pattern changes,
\* playback starts or stops
NextDialog ==
    \/ patternSizeLCDClicked
    \/ \E t \in DialogLengthTexts : patternSizeGetText(TRUE, t)
    \/ patternSizeGetText(FALSE, << >>)
    \/ patternSizeSetLength
    \/ patternSizeSetDenominator
    \/ \E b \in BOOLEAN : selectedPatternChangedEvent(b)
    \/ engineStateChanged

SpecDialog == InitSize /\ [][NextDialog]_vars

\* the grid resolution combo and the tuplet entry, with one pattern selected
InitGrid == Init /\ m_pPattern = "pattern" /\ patLength = MAX_NOTES /\ decimalPoint = "."

NextGrid ==
    \/ \E n \in SelectableEntries : gridResolutionChanged(n)
    \/ tupletLCDClicked
    \/ \E t \in TupletTexts : tupletGetText(TRUE, t)
    \/ tupletGetText(FALSE, << >>)
    \/ tupletInformationClosed

SpecGrid == InitGrid /\ [][NextGrid]_vars

\* the pattern length entry next to the audio thread
InitAudio == InitSize /\ m_pPattern = "pattern" /\ decimalPoint = "."

NextAudio ==
    \/ patternSizeLCDClicked
    \/ \E t \in AudioLengthTexts : patternSizeGetText(TRUE, t)
    \/ patternSizeSetLength
    \/ patternSizeSetDenominator
    \/ audioRead

SpecAudio == InitAudio /\ [][NextAudio]_vars

\* every length d/d, d in 1..192, and two lengths with a numerator that is
\* not an integer on display
WarningLengthTexts ==
    { IntText(d) \o <<"/">> \o IntText(d) : d \in 1..MAX_NOTES }
    \cup { <<"3", "/", "5">>, <<"3", "/", "7">> }

\* the pattern length entry over all denominators
InitWarning == InitSize /\ m_pPattern = "pattern" /\ decimalPoint = "."

NextWarning ==
    \/ patternSizeLCDClicked
    \/ \E t \in WarningLengthTexts : patternSizeGetText(TRUE, t)
    \/ patternSizeSetLength
    \/ patternSizeSetDenominator
    \/ selectedPatternChangedEvent(TRUE)

SpecWarning == InitWarning /\ [][NextWarning]_vars

\* every length n/d over a denominator d that divides 192, from one whole
\* d-th to one past four whole notes, and a length over another denominator
RoundTripLengthTexts ==
    UNION { { IntText(n) \o <<"/">> \o IntText(d) : n \in 1..(4 * d + 1) } :
              d \in SupportedDenominators }
    \cup { <<"3", "/", "5">> }

\* the handler has not run since start-up
FirstEntry == call.op = "PatternEditorPanel"

\* the first pattern length entry after start-up, over all these lengths
NextRoundTrip ==
    \/ FirstEntry /\ patternSizeLCDClicked
    \/ \E t \in RoundTripLengthTexts : patternSizeGetText(TRUE, t)
    \/ patternSizeSetLength
    \/ patternSizeSetDenominator

SpecRoundTrip == InitSize /\ [][NextRoundTrip]_vars

\* the grid of the drum editor set directly, and its granularity
GranularityResolutions == {1, 2, 4, 8, 16, 32, 64, MAX_NOTES}

GranularityRatios == { t \in (1..20) \X (1..20) : t[2] <= t[1] }

InitGranularity == InitGrid /\ pref = DefaultPreferences /\ PanelTupletUnread

NextGranularity ==
    \/ \E r \in GranularityResolutions :
           setTupletResolution("drum", r, editors["drum"].tupletNumerator,
                               editors["drum"].tupletDenominator)
    \/ \E t \in GranularityRatios :
           setTupletResolution("drum", editors["drum"].resolution, t[1], t[2])
    \/ editorGranularity("drum")

SpecGranularity == InitGranularity /\ [][NextGranularity]_vars

\* largest distance of the cursor index from 0, or from the least int, from
\* which the specifications below still move the cursor left or right: where
\* only the cursor moves, and where the grid and the pattern change too
MaxCursorIndex == 80

MaxClampedIndex == 24

CursorMayGrow(nMax) ==
    \/ m_nCursorIndexPosition \in (0 - nMax)..(nMax - 1)
    \/ m_nCursorIndexPosition = INT_MAX
    \/ (m_nCursorIndexPosition < 0 /\ m_nCursorIndexPosition + INT_MAX < nMax)

\* moveCursorLeft is followed from an index up to nMax, and once from a
\* larger index that a set operation has just stored
CursorMayShrink(nMax) ==
    \/ m_nCursorIndexPosition <= nMax
    \/ ( /\ call.op \in {"setCursorIndexPosition", "setCursorPosition"}
         /\ call.ret = m_nCursorIndexPosition )

\* the (length, denominator) of the pattern the cursor runs over: 4/4, and
\* the lengths stored for the entries "0.6" and "0.4" under denominator 4
CursorPatterns == { <<192, 4>>, <<29, 4>>, <<19, 4>> }

\* tuplet expressions entered before the cursor is moved: 5:4 and 7:4
MovesTupletTexts == { <<"5">>, <<"7">> }

\* the cursor moved left and right over one pattern, under a grid whose
\* tuplet ratio changes only while the cursor is at index 0
InitMoves ==
    /\ \E p \in InitialPreferences, pat \in CursorPatterns,
          unwritten \in UnwrittenTuplets :
           PatternEditorPanel(p, pat, TRUE, ".", unwritten)

NextMoves ==
    \/ CursorMayShrink(MaxCursorIndex) /\ moveCursorLeft
    \/ CursorMayGrow(MaxCursorIndex) /\ moveCursorRight
    \/ getCursorPosition
    \/ (m_nCursorIndexPosition = 0 /\ tupletLCDClicked)
    \/ \E t \in MovesTupletTexts : tupletGetText(TRUE, t)

SpecMoves == InitMoves /\ [][NextMoves]_vars

\* largest grid index given to setCursorIndexPosition
MaxGridIndex == 5

\* columns given to setCursorPosition
CursorColumns == { -1, 0, 17, 29, 100 }

\* combo entries and tuplet expressions entered while the cursor is in
\* use: 1/4, 1/16, 1/16 triplets; 5:4 and off
CursorGridEntries == { 0, 2, 8 }

CursorTupletTexts == { <<"5">>, <<"4">> }

\* the cursor next to pattern switches and to changes of grid and length
InitCursor ==
    /\ \E pat \in CursorPatterns, unwritten \in UnwrittenTuplets :
           PatternEditorPanel(DefaultPreferences, pat, TRUE, ".", unwritten)

NextCursor ==
    \/ \E n \in -1..MaxGridIndex : setCursorIndexPosition(n)
    \/ \E c \in CursorColumns : setCursorPosition(c)
    \/ CursorMayShrink(MaxClampedIndex) /\ moveCursorLeft
    \/ CursorMayGrow(MaxClampedIndex) /\ moveCursorRight
    \/ getCursorPosition
    \/ \E b \in BOOLEAN : selectedPatternChangedEvent(b)
    \/ \E n \in CursorGridEntries : gridResolutionChanged(n)
    \/ tupletLCDClicked
    \/ \E t \in CursorTupletTexts : tupletGetText(TRUE, t)

SpecCursor == InitCursor /\ [][NextCursor]_vars

\* pattern sizes entered while the cursor is in use: 19, 38 and 192 ticks
ResizeLengthTexts == { <<"0", ".", "4">>, <<"4">>, <<"1", "/", "5">> }

\* the cursor next to changes of the pattern length and of the grid
InitResize ==
    /\ \E unwritten \in UnwrittenTuplets :
           PatternEditorPanel(DefaultPreferences, <<MAX_NOTES, 4>>, TRUE, ".", unwritten)

NextResize ==
    \/ \E n \in 0..MaxGridIndex : setCursorIndexPosition(n)
    \/ CursorMayGrow(MaxClampedIndex) /\ moveCursorRight
    \/ \E n \in CursorGridEntries : gridResolutionChanged(n)
    \/ tupletLCDClicked
    \/ \E t \in CursorTupletTexts : tupletGetText(TRUE, t)
    \/ patternSizeLCDClicked
    \/ \E t \in ResizeLengthTexts : patternSizeGetText(TRUE, t)
    \/ patternSizeSetLength
    \/ patternSizeSetDenominator

SpecResize == InitResize /\ [][NextResize]_vars

\* patterns of 19 and 5 ticks under the cursor while the grid gets fine
TickPatterns == { <<19, 4>>, <<5, 4>> }

\* combo entries 1/4, 1/16 and "off" (resolution MAX_NOTES)
TickGridEntries == { 0, 2, 11 }

\* accepted tuplet expressions: 4:1, 20:16 and 3:2
TickTupletTexts == { <<"4", ":", "1">>, <<"2", "0">>, <<"3">> }

\* the cursor moved over a short pattern while the grid is changed through
\* the combo box and through accepted tuplet expressions
InitTicks ==
    /\ \E pat \in TickPatterns, unwritten \in UnwrittenTuplets :
           PatternEditorPanel(DefaultPreferences, pat, TRUE, ".", unwritten)

NextTicks ==
    \/ CursorMayShrink(MaxCursorIndex) /\ moveCursorLeft
    \/ CursorMayGrow(MaxCursorIndex) /\ moveCursorRight
    \/ getCursorPosition
    \/ \E n \in TickGridEntries : gridResolutionChanged(n)
    \/ tupletLCDClicked
    \/ \E t \in TickTupletTexts : tupletGetText(TRUE, t)

SpecTicks == InitTicks /\ [][NextTicks]_vars

\* largest pixel position, counted from the margin, given to getColumn
MaxPixel == 30

\* widths of a tick in pixels: 1, 3 and 1/2
GridWidths == { <<1, 1>>, <<3, 1>>, <<1, 2>> }

\* combo entries 1/4, 1/16, 1/16 triplets and "off"
ColumnGridEntries == { 0, 2, 8, 11 }

\* accepted tuplet expressions: 5:4, 7:4, 20:16 and 4:1
ColumnTupletTexts == { <<"5">>, <<"7">>, <<"2", "0">>, <<"4", ":", "1">> }

\* pixel positions mapped to ticks while the grid is changed through the
\* combo box and through accepted tuplet expressions
\* the (length, denominator) of the pattern under the pointer: 4/4, and the
\* lengths stored for the entries "0.35" and "0.4" under denominator 4
ColumnPatterns == { <<192, 4>>, <<17, 4>>, <<19, 4>> }

InitColumn ==
    \E pat \in ColumnPatterns :
        PatternEditorPanel(DefaultPreferences, pat, TRUE, ".", <<0, 0>>)

\* pixel positions from two pixels inside the margin on
NextColumn ==
    \/ \E x \in (m_nMargin - 2)..(m_nMargin + MaxPixel), b \in BOOLEAN, w \in GridWidths :
           editorGetColumn("drum", x, b, w)
    \/ \E n \in ColumnGridEntries : gridResolutionChanged(n)
    \/ tupletLCDClicked
    \/ \E t \in ColumnTupletTexts : tupletGetText(TRUE, t)

SpecColumn == InitColumn /\ [][NextColumn]_vars


\* ------------------------------------------------------------------------
\* Properties of the pattern length entry
\* ------------------------------------------------------------------------

\* the last call was patternSizeLCDClicked and it took the named path
SizeCallEnded(c, result) == c.op = "patternSizeLCDClicked" /\ c.result = result

\* numerator of the text entered: the double it is converted to
EnteredNumerator(c) == toDouble(replace(split(c.text, "/")[1], ",", "."))

\* a <= b
BigLeq(a, b) == ~BigLess(b, a)

\* the least k for which x * 2^k is a natural number, x a finite double
IntegralShift(x) == IF x.e < 0 THEN 0 - x.e ELSE 0

\* 2^39 - 1
TwoTo39Less1 == << LimbBase - 1, LimbBase - 1, (2 ^ 9) - 1 >>

\* k * 2^39 + c for k >= 1 and c one of -1, 0, 1
ScaledOdd(k, c) ==
    IF c < 0 THEN BigAdd(BigShiftLeft(BigOfInt(k - 1), 39), TwoTo39Less1)
    ELSE BigAdd(BigShiftLeft(BigOfInt(k), 39), BigOfInt(c))

\* The numbers compared below are 2 * 192 * x and (k + c / 2^39) * d, both
\* multiplied by 2^39 and by the power of two that makes x a natural
\* number: x is a finite double that is not negative and d a denominator.
TwiceTicksOf(x) ==
    BigMulAdd(BigShiftLeft(x.m, 39 + x.e + IntegralShift(x)), 2 * 192, 0)

OddTimes(k, c, d, x) == BigShiftLeft(BigMulAdd(ScaledOdd(k, c), d, 0), IntegralShift(x))

\* nLength = round( 192 * x / d ) in exact arithmetic, halves away from zero:
\* nLength - 1/2 <= 192 * x / d < nLength + 1/2
IsRoundedTicks(nLength, x, d) ==
    /\ nLength = 0 \/ BigLeq(OddTimes(2 * nLength - 1, 0, d, x), TwiceTicksOf(x))
    /\ BigLess(TwiceTicksOf(x), OddTimes(2 * nLength + 1, 0, d, x))

\* nLength is within half a tick of 192 * x / d, give or take 2^-40 of a tick
IsNearestTicks(nLength, x, d) ==
    /\ nLength = 0 \/ BigLeq(OddTimes(2 * nLength - 1, -1, d, x), TwiceTicksOf(x))
    /\ BigLeq(TwiceTicksOf(x), OddTimes(2 * nLength + 1, 1, d, x))

\* the double x is an integer
DoubleIsInteger(x) == x.cls = "finite" /\ (x.e >= 0 \/ ~BigLowBits(x.m, 0 - x.e))

\* n > 4 * d, compared exactly
AboveFour(n, d) == DoubleGreater(n, DoubleOfInt(4 * d))

\* a denominator was entered
DenominatorEntered(c) == Len(split(c.text, "/")) = 2

\* the denominator in force: the entered one, else the one the pattern holds (den)
DenominatorInForce(c, den) ==
    IF DenominatorEntered(c) THEN toInt(split(c.text, "/")[2]).val ELSE den

\* the preconditions of an accepted length expression, and the denominator
\* the pattern holds after it
AcceptedAsStated(c, den, denAfter) ==
    LET n == EnteredNumerator(c)
        d == DenominatorInForce(c, den)
    IN  /\ n.ok /\ DoublePositive(n.val) /\ d > 0 /\ d <= 192
        /\ ~AboveFour(n.val, d)
        /\ denAfter = d

\* C1 as stated: after an accepted length expression n[/d] the pattern
\* holds length = round(192 / d * n), the value 192 * n / d rounded to the
\* nearest integer with halves away from zero, and denominator = d.
C1_ExactLength ==
    [][ SizeCallEnded(call', "accepted") =>
          /\ AcceptedAsStated(call', patDenominator, patDenominator')
          /\ IsRoundedTicks(patLength', EnteredNumerator(call').val,
                            DenominatorInForce(call', patDenominator)) ]_vars

\* C1: after an accepted length expression n[/d] (n > 0, d in (0, 192],
\* n/d <= 4) the pattern holds a length within half a tick of 192 * n / d,
\* give or take the rounding of the arithmetic on doubles (so the integer
\* round(192 / d * n) wherever 192 * n / d is not halfway between two
\* integers), and denominator = d, d being the entered denominator or else
\* the pattern's denominator before the call.
C1_AcceptedLengthAndDenominator ==
    [][ SizeCallEnded(call', "accepted") =>
          /\ AcceptedAsStated(call', patDenominator, patDenominator')
          /\ IsNearestTicks(patLength', EnteredNumerator(call').val,
                            DenominatorInForce(call', patDenominator)) ]_vars

\* "3.4375/88": 192 * 3.4375 / 88 is 7.5, and 7 ticks are stored, since
\* the double 192 / 88 lies below 24 / 11 and its product with 3.4375
\* below 7.5
C1_Witness ==
    /\ SizeCallEnded(call, "accepted")
    /\ call.text = <<"3", ".", "4", "3", "7", "5", "/", "8", "8">>
    /\ patLength = 7 /\ patDenominator = 88

\* C2: a rejected length expression leaves the pattern's length and
\* denominator exactly as they were before the call.
C2_RejectionKeepsPattern ==
    [][ SizeCallEnded(call', "rejected") =>
          patLength' = patLength /\ patDenominator' = patDenominator ]_vars

\* "3/-4", its minus the MINUS SIGN U+2212, is refused for its denominator
\* and the pattern of the song is as the constructor found it
C2_Witness ==
    /\ SizeCallEnded(call, "rejected")
    /\ call.text = <<"3", "/", "U+2212", "4">>
    /\ call.msgs = {"DenominatorRejected"}
    /\ << patLength, patDenominator >> \in InitialPatterns

\* C3: the audio thread never reads a (length, denominator) that is neither
\* the pair before an accepted length expression nor the pair after it.
C3_NoTornRead ==
    <<audioSeen.length, audioSeen.denominator>> \in audioSeen.complete

\* C4: the pattern length is always at least one tick.
C4_LengthPositive == patLength >= 1

\* C5: among the expressions passing the other checks, exactly those with
\* numerator / denominator > 4 are rejected, and no accepted expression
\* stores more than 4 * 192 = 768 ticks.
C5_RejectedIffAboveFour ==
    (call.op = "patternSizeLCDClicked" /\ call.result \in {"accepted", "rejected"}) =>
        LET parts == split(call.text, "/")
            n == EnteredNumerator(call)
            d == DenominatorInForce(call, patDenominator)
            passes == /\ Len(parts) <= 2 /\ n.ok /\ DoublePositive(n.val)
                      /\ (DenominatorEntered(call) => toInt(parts[2]).ok)
                      /\ d > 0 /\ d <= 192
        IN  /\ passes => (call.result = "rejected" <=> AboveFour(n.val, d))
            /\ call.result = "accepted" => patLength <= 768

\* "16/4" is accepted and stores 768 ticks
C5_Witness ==
    /\ SizeCallEnded(call, "accepted") /\ call.text = <<"1", "6", "/", "4">>
    /\ patLength = 768

\* C6: an accepted expression shows the "length may be approximated"
\* notice exactly when 192 % denominator # 0, and the pattern then still
\* holds the computed length and the denominator.
C6_DenominatorAdvisory ==
    SizeCallEnded(call, "accepted") =>
        LET n == EnteredNumerator(call)
            d == DenominatorInForce(call, patDenominator)
        IN  /\ "LengthNotSupported" \in call.msgs <=> 192 % d # 0
            /\ "LengthNotSupported" \in call.msgs =>
                 /\ patDenominator = d
                 /\ IsNearestTicks(patLength, n.val, d)

\* "3/5" is accepted with the notice: 115 ticks in fifths
C6_Witness ==
    /\ SizeCallEnded(call, "accepted") /\ call.text = <<"3", "/", "5">>
    /\ "LengthNotSupported" \in call.msgs
    /\ patLength = 115 /\ patDenominator = 5

\* C7: an accepted expression with an integer numerator and a denominator
\* dividing 192 shows no notice at all.
C7_ExactFractionNoAdvisory ==
    ( /\ SizeCallEnded(call, "accepted")
      /\ DoubleIsInteger(EnteredNumerator(call).val)
      /\ 192 % DenominatorInForce(call, patDenominator) = 0 )
    => call.msgs = {}

\* "3/8" is accepted silently as 72 ticks
C7_Witness ==
    /\ SizeCallEnded(call, "accepted") /\ call.text = <<"3", "/", "8">>
    /\ call.msgs = {} /\ patLength = 72 /\ patDenominator = 8

\* C8: after "n/d" is accepted, n >= 1 an integer and d a divisor of 192,
\* the pattern size display shows the text "n/d" again.
C8_RoundTrip ==
    SizeCallEnded(call, "accepted") =>
        LET parts == split(call.text, "/")
        IN  ( /\ Len(parts) = 2
              /\ toInt(parts[1]).ok /\ toInt(parts[1]).val >= 1
              /\ toInt(parts[2]).ok /\ 192 % toInt(parts[2]).val = 0
              /\ call.text = IntText(toInt(parts[1]).val) \o <<"/">> \o IntText(toInt(parts[2]).val) )
            => sizeLCD = call.text

\* "767/192", the longest length but one, comes back as "767/192"
C8_Witness ==
    /\ SizeCallEnded(call, "accepted")
    /\ call.text = <<"7", "6", "7", "/", "1", "9", "2">>
    /\ patLength = 767 /\ sizeLCD = <<"7", "6", "7", "/", "1", "9", "2">>

\* ------------------------------------------------------------------------
\* Properties of the tuplet entry
\* ------------------------------------------------------------------------

\* the ratio held by Preferences, by the panel and by every editor
StoredRatios ==
    { <<pref.tupletNumerator, pref.tupletDenominator>>,
      <<m_nTupletNumerator, m_nTupletDenominator>> }
    \cup { <<editors[e].tupletNumerator, editors[e].tupletDenominator>> : e \in Editors }

\* every stored ratio has 0 < numerator <= 20 and 0 < denominator <= nMax
RatiosWithin(nMax) ==
    \A r \in StoredRatios : r[1] > 0 /\ r[1] <= 20 /\ r[2] > 0 /\ r[2] <= nMax

\* C9 as stated: from a state whose stored ratios have numerator and
\* denominator both in 1..20, every step leads to such a state.
C9_RatioWithinTwenty == [][ RatiosWithin(20) => RatiosWithin(20)' ]_vars

\* C9: from a state in which every stored tuplet ratio has
\* 0 < numerator <= 20 and 0 < denominator <= 192, every step of
\* tupletLCDClicked and gridResolutionChanged leads to such a state.
C9_RatioWithinLimits == [][ RatiosWithin(MAX_NOTES) => RatiosWithin(MAX_NOTES)' ]_vars

\* "3:192" is accepted
C9_Witness ==
    /\ call.op = "tupletLCDClicked" /\ call.result = "accepted"
    /\ call.text = <<"3", ":", "1", "9", "2">>
    /\ pref.tupletNumerator = 3 /\ pref.tupletDenominator = 192

IsPowerOfTwo(d) == \E k \in 0..8 : d = 2 ^ k

\* C10: an accepted tuplet expression giving only the numerator n stores
\* (n, d), d the power of two with d <= n < 2 * d.
C10_StandardDenominator ==
    ( /\ call.op = "tupletLCDClicked" /\ call.result = "accepted"
      /\ Len(split(call.text, ":")) = 1 )
    => LET n == toInt(call.text).val
       IN  \A r \in StoredRatios :
               r[1] = n /\ IsPowerOfTwo(r[2]) /\ r[2] <= n /\ n < 2 * r[2]

\* "5" gives 5:4
C10_Witness ==
    /\ call.op = "tupletLCDClicked" /\ call.result = "accepted"
    /\ call.text = <<"5">>
    /\ StoredRatios = { <<5, 4>> }

\* the call was tupletLCDClicked with OK pressed and ended with result
TupletCallEnded(c, result) == c.op = "tupletLCDClicked" /\ c.ok /\ c.result = result

\* the numerator field of the entered tuplet expression
TupletNumeratorEntered(c) == toInt(split(c.text, ":")[1])

\* C11: a tuplet expression whose numerator is greater than 20 is rejected,
\* with or without a denominator, and no step stores a numerator greater
\* than 20 in Preferences, in the panel or in an editor.
C11_NumeratorAboveTwentyRejected ==
    [][ /\ ( /\ call'.op = "tupletLCDClicked" /\ call'.ok
              /\ TupletNumeratorEntered(call').ok
              /\ TupletNumeratorEntered(call').val > 20 )
           => call'.result = "rejected"
        /\ \A r \in StoredRatios' \ StoredRatios : r[1] <= 20 ]_vars

\* "21" and "21:7" have been entered and rejected with the numerator notice
C11_Witness ==
    /\ TupletCallEnded(call, "rejected")
    /\ call.text \in { <<"2", "1">>, <<"2", "1", ":", "7">> }
    /\ call.msgs = {"TupletNumeratorTooBig"}

\* the tuplet ratio of Preferences, of the panel and of every editor, and
\* the text of the tuplet display
TupletState == << pref.tupletNumerator, pref.tupletDenominator, m_nTupletNumerator,
                  m_nTupletDenominator,
                  [e \in Editors |-> <<editors[e].tupletNumerator,
                                       editors[e].tupletDenominator>>],
                  tupletLCD >>

\* C12: a step in which tupletLCDClicked rejects its input leaves the tuplet
\* ratio of Preferences, of the panel and of every editor, and the text of
\* the tuplet display, as they were before the call.
C12_RejectionKeepsTuplet ==
    [][ TupletCallEnded(call', "rejected") => TupletState' = TupletState ]_vars

\* "5:-4", its minus the MINUS SIGN U+2212, is refused for its denominator
\* while a ratio other than the start-up one is in force
C12_Witness ==
    /\ TupletCallEnded(call, "rejected")
    /\ call.text = <<"5", ":", "U+2212", "4">>
    /\ call.msgs = {"DenominatorRejected"}
    /\ StoredRatios = { <<7, 4>> }
    /\ tupletLCD = <<"7", ":", "4">>

\* C13 as stated: while the stored ratio is (4, 4) the tuplet display
\* shows "off".
C13_OffShownForFourFour ==
    StoredRatios = { <<4, 4>> } => tupletLCD = <<"o", "f", "f">>

\* ------------------------------------------------------------------------
\* Properties of the granularity
\* ------------------------------------------------------------------------

RECURSIVE GCD(_, _)
GCD(a, b) == IF b = 0 THEN a ELSE GCD(b, a % b)

\* p / d in lowest terms
ExactQuotient(p, d) == << p \div GCD(p, d), d \div GCD(p, d) >>

\* d is a power of two
IsDyadic(d) == \E k \in 0..12 : d = 2 ^ k

\* floor(1024 * x) of the float x
FloatInUnitsOf1024th(x) ==
    IF x[2] >= 1024 THEN x[1] \div (x[2] \div 1024) ELSE x[1] * (1024 \div x[2])

\* the float granularity() has just returned
ReturnedGranularity == call.ret

\* C14 as stated: granularity() = 192 * den / (num * r), is positive,
\* 192 / granularity() = r * num / den, and it is 12 with tuplet off at r = 16.
C14_GranularityExact ==
    call.op = "granularity" =>
        LET ed == editors["drum"]
            g  == ReturnedGranularity
        IN  /\ g[1] > 0
            /\ g = ExactQuotient(MAX_NOTES * ed.tupletDenominator,
                                 ed.tupletNumerator * ed.resolution)
            /\ ExactQuotient(MAX_NOTES * g[2], g[1])
                   = ExactQuotient(ed.resolution * ed.tupletNumerator, ed.tupletDenominator)
            /\ (ed.resolution = 16 /\ ed.tupletNumerator = ed.tupletDenominator)
                   => g = <<12, 1>>

\* C14: granularity() is positive and is 192 * den / (num * r) as a float:
\* equal to it when the quotient is a dyadic rational (so 12 with tuplet off
\* at r = 16), and within 1/1024 of a tick of it otherwise.
C14_GranularityNearest ==
    call.op = "granularity" =>
        LET ed == editors["drum"]
            g  == ReturnedGranularity
            x  == ExactQuotient(MAX_NOTES * ed.tupletDenominator,
                                ed.tupletNumerator * ed.resolution)
            gs == FloatInUnitsOf1024th(g)
            xs == (1024 * x[1]) \div x[2]
        IN  /\ g[1] > 0
            /\ IsDyadic(x[2]) => g = x
            /\ gs - xs <= 1 /\ xs - gs <= 1
            /\ (ed.resolution = 16 /\ ed.tupletNumerator = ed.tupletDenominator)
                   => g = <<12, 1>>

\* quarter notes under 5:4: 38.4 is returned as 5033165 / 2^17
C14_Witness ==
    /\ call.op = "granularity"
    /\ editors["drum"] = [resolution |-> 4, tupletNumerator |-> 5, tupletDenominator |-> 4]
    /\ ReturnedGranularity = <<5033165, 131072>>

\* ------------------------------------------------------------------------
\* Properties of the cursor
\* ------------------------------------------------------------------------

\* i < n for an int n: no comparison with a NaN holds
IntegerBelow(i, n) == (i.cls = "int" /\ i.val < n) \/ i.cls = "below"

\* C15 as stated: moveCursorRight adds one to the index iff
\* round((index + 1) * granularity()) < pattern length and else keeps it;
\* moveCursorLeft stores max(0, index - 1).
C15_MoveRightIffRounded ==
    [][ /\ call'.op = "moveCursorRight"
           => m_nCursorIndexPosition' =
                 IF IntegerBelow(IntegerOf(SingleTimes(SingleOfInt(m_nCursorIndexPosition + 1),
                                                       PanelGranularity), TRUE),
                                 patLength)
                 THEN m_nCursorIndexPosition + 1
                 ELSE m_nCursorIndexPosition
        /\ call'.op = "moveCursorLeft"
           => m_nCursorIndexPosition' =
                 IF m_nCursorIndexPosition - 1 > 0 THEN m_nCursorIndexPosition - 1 ELSE 0
      ]_vars

\* C16 as stated: under a fixed grid and pattern length, after moves from
\* index 0 the tick position returned by getCursorPosition is in
\* [0, pattern length).
C16_PositionInsidePattern ==
    call.op = "getCursorPosition" => call.ret >= 0 /\ call.ret < patLength

\* setCursorIndexPosition has returned
IndexWasSet == call.op = "setCursorIndexPosition" /\ call.result = "done"

\* the panel holds a tuplet ratio as tupletLCDClicked accepts them, on which
\* granularity() is the quotient 192 * denominator / (numerator * resolution)
PanelRatioDefined ==
    /\ m_nResolution > 0
    /\ m_nTupletNumerator \in 1..20
    /\ m_nTupletDenominator \in 1..MAX_NOTES

\* round( g * granularity() ), on the exact quotient
TickOfIndex(nGridIndex) ==
    RoundDiv(nGridIndex * MAX_NOTES * m_nTupletDenominator, m_nTupletNumerator * m_nResolution)

\* floor( length / granularity() ), on the exact quotient
FloorIndex(nLength) ==
    (nLength * m_nTupletNumerator * m_nResolution) \div (MAX_NOTES * m_nTupletDenominator)

\* C17 as stated: setCursorIndexPosition(g) stores 0 for g < 0,
\* floor(length / granularity()) when round(g * granularity()) exceeds the
\* pattern length, and g in every other case, equality included.
C17_KeptAtPatternLength ==
    IndexWasSet =>
        /\ call.arg < 0 => m_nCursorIndexPosition = 0
        /\ (call.arg >= 0 /\ PanelRatioDefined) =>
               m_nCursorIndexPosition =
                   IF TickOfIndex(call.arg) > patLength
                   THEN FloorIndex(patLength)
                   ELSE call.arg

\* C17: setCursorIndexPosition(g) stores 0 for g < 0,
\* floor(length / granularity()) when round(g * granularity()) is the pattern
\* length or more, and g in every other case.
C17_ClampedFromPatternLength ==
    IndexWasSet =>
        /\ call.arg < 0 => m_nCursorIndexPosition = 0
        /\ (call.arg >= 0 /\ PanelRatioDefined) =>
               m_nCursorIndexPosition =
                   IF TickOfIndex(call.arg) >= patLength
                   THEN FloorIndex(patLength)
                   ELSE call.arg

\* index 2 under 1/16 and 5:4 (9.6 ticks) is at tick 19 of a pattern of
\* 19 ticks: the index stored is 1
C17_Witness ==
    /\ IndexWasSet
    /\ call.arg = 2
    /\ m_nResolution = 16 /\ m_nTupletNumerator = 5 /\ m_nTupletDenominator = 4
    /\ patLength = 19
    /\ m_nCursorIndexPosition = 1

\* C18 as stated: when selectedPatternChangedEvent has completed the
\* cursor index is 0.
C18_ResetOnPatternSwitch ==
    call.op = "selectedPatternChangedEvent" => m_nCursorIndexPosition = 0

\* the last call changed the pattern length or the grid
GridOrLengthChanged ==
    \/ SizeCallEnded(call, "accepted")
    \/ call.op = "gridResolutionChanged"
    \/ TupletCallEnded(call, "accepted")

\* C19 as stated: after an accepted patternSizeLCDClicked, a
\* gridResolutionChanged or an accepted tupletLCDClicked the tick position
\* of the cursor under the new values is not beyond the pattern length.
C19_ReclampedOnChange ==
    GridOrLengthChanged
        => \A nCast \in FloatToInt :
               CursorPosition(m_nCursorIndexPosition, PanelGranularity, nCast) <= patLength

\* C20 as stated: moveCursorLeft, moveCursorRight, setCursorIndexPosition
\* and setCursorPosition complete, without reading the length of a pattern
\* that is not there.
C20_CursorCallsComplete ==
    call.op \in { "moveCursorLeft", "moveCursorRight", "setCursorIndexPosition",
                  "setCursorPosition" }
        => call.result = "done" /\ ~crashed

\* ------------------------------------------------------------------------
\* Properties of the engine state guard and of the size display
\* ------------------------------------------------------------------------

\* C24 as stated: a step taken while the engine state is not STATE_READY
\* leaves the length and the denominator of the pattern as they were, and
\* a patternSizeLCDClicked made in that state ends before any text is read.
C24_NoChangeUnlessReady ==
    [][ engineState # "READY"
        => /\ patLength' = patLength /\ patDenominator' = patDenominator
           /\ (guiPc = "idle" /\ call' # call /\ call'.op = "patternSizeLCDClicked")
                  => (call'.result = "notReady" /\ guiPc' = "idle") ]_vars

\* updatePatternSizeLCD has run on the selected pattern
SizeDisplayUpdated ==
    /\ m_pPattern = "pattern"
    /\ \/ SizeCallEnded(call, "accepted")
       \/ (call.op = "selectedPatternChangedEvent" /\ call.ok)

\* C25: after updatePatternSizeLCD the denominator warning is hidden
\* exactly when the denominator is one of the divisors of 192 listed by
\* denominatorWarningClicked, whatever the numerator on display.
C25_WarningIffUnsupported ==
    SizeDisplayUpdated => (denominatorWarning = (patDenominator \notin SupportedDenominators))

\* "5/5" is displayed with an integer numerator, and the warning is shown
C25_Witness ==
    /\ SizeCallEnded(call, "accepted")
    /\ patLength = MAX_NOTES /\ patDenominator = 5
    /\ sizeLCD = <<"5", "/", "5">>
    /\ denominatorWarning

\* the text t is the integer n
IsIntegerText(t, n) == Len(t) >= 1 /\ AllDigits(t) /\ DigitsVal(t) = n /\ t = IntText(n)

\* the text t is a decimal with exactly three fractional digits, within half
\* a thousandth of k / 192
IsThreeDigitText(t, k) ==
    /\ Len(t) >= 5
    /\ t[Len(t) - 3] = decimalPoint
    /\ LET ip == SubSeq(t, 1, Len(t) - 4)
           fp == SubSeq(t, Len(t) - 2, Len(t))
           m  == DigitsVal(ip) * 1000 + DigitsVal(fp)
       IN  /\ AllDigits(ip) /\ AllDigits(fp)
           /\ 2 * (m * MAX_NOTES - k * 1000) <= MAX_NOTES
           /\ 2 * (k * 1000 - m * MAX_NOTES) <= MAX_NOTES

\* C30: after updatePatternSizeLCD, and so after every accepted
\* patternSizeLCDClicked, the display is "n/d" with n the integer
\* length * d / 192 exactly when (length * d) % 192 = 0, and otherwise with
\* n the value length * d / 192 printed with exactly three decimal digits.
C30_SizeRendering ==
    SizeDisplayUpdated =>
        LET parts == split(sizeLCD, "/")
            k     == patLength * patDenominator
        IN  /\ Len(parts) = 2
            /\ IsIntegerText(parts[2], patDenominator)
            /\ IF k % MAX_NOTES = 0
               THEN IsIntegerText(parts[1], k \div MAX_NOTES)
               ELSE IsThreeDigitText(parts[1], k)

\* "1e-1/4", its minus the MINUS SIGN U+2212, is stored as 5 ticks and
\* displayed as "0.104/4"
C30_Witness ==
    /\ SizeCallEnded(call, "accepted")
    /\ call.text = <<"1", "e", "U+2212", "1", "/", "4">>
    /\ patLength = 5 /\ patDenominator = 4
    /\ sizeLCD = <<"0", ".", "1", "0", "4", "/", "4">>

\* ------------------------------------------------------------------------
\* Properties of the grid kept by Preferences, the panel and the editors
\* ------------------------------------------------------------------------

\* the last call wrote the grid
GridWritten == call.op = "gridResolutionChanged" \/ TupletCallEnded(call, "accepted")

\* the resolutions held by Preferences, by the panel and by every editor
StoredResolutions ==
    { pref.resolution, m_nResolution } \cup { editors[e].resolution : e \in Editors }

\* C26: after gridResolutionChanged or an accepted tupletLCDClicked the
\* panel, the seven editors and Preferences hold one resolution and one
\* (numerator, denominator) pair.
C26_GridReplicasAgree ==
    GridWritten =>
        /\ StoredResolutions = { pref.resolution }
        /\ StoredRatios = { <<pref.tupletNumerator, pref.tupletDenominator>> }

\* 1/16 triplets selected: every holder has resolution 16 and the ratio 3:2
C26_Witness ==
    /\ call.op = "gridResolutionChanged" /\ call.text = <<"8">>
    /\ StoredResolutions = {16}
    /\ StoredRatios = { <<3, 2>> }
    /\ tupletLCD = <<"3", ":", "2">>

\* C27 as stated: after gridResolutionChanged(i) the constructor's restore
\* logic maps the resolution and ratio kept in Preferences back to i.
C27_RestoresSelectedEntry ==
    call.op = "gridResolutionChanged" =>
        RestoreIndex(pref.resolution, pref.tupletNumerator, pref.tupletDenominator)
            = toInt(call.text).val

\* resolution, tuplet numerator and tuplet denominator are positive
\* wherever they are held
GridPositive ==
    /\ \A r \in StoredResolutions : r > 0
    /\ \A t \in StoredRatios : t[1] > 0 /\ t[2] > 0

\* they are positive in Preferences and in every editor, and so is every
\* resolution
ConfiguredGridPositive ==
    /\ \A r \in StoredResolutions : r > 0
    /\ pref.tupletNumerator > 0 /\ pref.tupletDenominator > 0
    /\ \A e \in Editors : editors[e].tupletNumerator > 0 /\ editors[e].tupletDenominator > 0

\* the granularity of the grid of every editor is positive, and where the
\* panel holds a tuplet ratio as the handlers assign them its granularity
\* is a finite value above 0 too
GranularityPositive ==
    /\ \A g \in { editors[e] : e \in Editors } :
           (g.resolution > 0 /\ g.tupletNumerator > 0)
               => granularity(g.resolution, g.tupletNumerator, g.tupletDenominator)[1] > 0
    /\ PanelRatioDefined
           => ( /\ ~IsZero(SingleOfUnsigned(UnsignedProduct(m_nTupletNumerator,
                                                            m_nResolution)))
                /\ PanelGranularity.cls = "finite"
                /\ DoublePositive(PanelGranularity) )

\* the step assigns the tuplet members of the panel
PanelRatioAssigned ==
    \/ m_nTupletNumerator' # m_nTupletNumerator
    \/ m_nTupletDenominator' # m_nTupletDenominator

\* C29: in every state reached from the state the constructor leaves
\* through gridResolutionChanged and tupletLCDClicked, resolution, tuplet
\* numerator and tuplet denominator are positive in Preferences and in every
\* editor and the granularity of every editor is positive; every step from
\* a state in which they are positive wherever they are held, the panel
\* included, leads to such a state; and a step that assigns the panel's
\* members assigns a ratio within the limits of tupletLCDClicked, on which
\* the granularity of the panel is a finite value above 0.
C29_GridPositive ==
    /\ [](ConfiguredGridPositive /\ GranularityPositive)
    /\ [][ /\ GridPositive => GridPositive'
           /\ PanelRatioAssigned => (GridPositive' /\ PanelRatioDefined') ]_vars

\* the numerator "0" has been entered and refused
C29_Witness ==
    /\ TupletCallEnded(call, "rejected")
    /\ call.text = <<"0">>
    /\ call.msgs = {"TextRejected"}
    /\ GridPositive

\* C23: tupletLCDClicked always returns: on every text whose numerator
\* parses, the loop computing the standard denominator ends and the handler
\* comes back, also for numerators near INT_MAX where 2 * nTupletDenominator
\* overflows.
C23_TupletHandlerReturns ==
    call.op = "tupletLCDClicked" =>
        /\ call.result \notin {"hang", "crash"}
        /\ guiPc # "tupletLoop"
        /\ ~crashed

\* C28: in the states reached through gridResolutionChanged and accepted
\* tupletLCDClicked calls, a moveCursorRight that changes the cursor index
\* strictly increases the tick getCursorPosition() returns: two adjacent
\* grid indices never map to the same tick.  (moveCursorRight leaves the
\* grid as it is, so the granularity is that of either state.)
C28_MoveRightAdvancesTick ==
    [][ (call'.op = "moveCursorRight" /\ m_nCursorIndexPosition' # m_nCursorIndexPosition)
        => \A nCast \in FloatToInt :
               CursorPosition(m_nCursorIndexPosition', PanelGranularity, nCast)
                   > CursorPosition(m_nCursorIndexPosition, PanelGranularity, nCast) ]_vars

\* the granularity of the grid of the drum editor
DrumGranularity ==
    granularity(editors["drum"].resolution, editors["drum"].tupletNumerator,
                editors["drum"].tupletDenominator)

\* the tick t of the editor's grid snapped again: toColumn at the position
\* of t
SnappedAgain(t) == ColumnOfTick(<< t, 1 >>, DrumGranularity, patLength)

\* the grid mark nearest to the position of the last getColumn call, as a
\* tick
NearestMark == SnappedColumn(getFloatColumn(call.arg[1], call.arg[3]), DrumGranularity)

\* C21 as stated: the tick t returned by getColumn without the fine-grained
\* flag is a tick that snapping maps to itself, under every resolution and
\* ratio and at every position.
C21_SnapIdempotent ==
    (call.op = "getColumn" /\ ~call.arg[2]) => SnappedAgain(call.ret) = call.ret

\* C21: snapping is idempotent wherever the nearest grid mark lies inside
\* the pattern: the tick t returned by getColumn without the fine-grained
\* flag for a position whose nearest grid mark is a tick below the pattern
\* length, t = round( round( c / granularity() ) * granularity() ), is a
\* tick that snapping maps to itself, under every resolution and ratio.
C21_SnapIdempotentInside ==
    (call.op = "getColumn" /\ ~call.arg[2] /\ call.arg[1] >= m_nMargin
        /\ NearestMark < patLength)
        => (call.ret = NearestMark /\ SnappedAgain(call.ret) = call.ret)

\* a position between two marks of the grid of granularity 9.6 has been
\* snapped: the pixel 45 at one pixel per tick is the tick 25, returned as
\* the mark 3 * 9.6 rounded, 29
C21_Witness ==
    /\ call.op = "getColumn"
    /\ call.arg = << 45, FALSE, <<1, 1>> >>
    /\ editors["drum"].resolution = 16
    /\ editors["drum"].tupletNumerator = 5
    /\ patLength = MAX_NOTES
    /\ call.ret = 29

====
